---------------------------- MODULE Spec2Model ----------------------------
(***************************************************************************)
(* Model of the NASA-polynomial evaluation engine of MoziThermoCalcDB-NASA *)
(* (tools.py, hsg.py, hsgs.py, rxn_adapter.py, app.py).                    *)
(*                                                                         *)
(* Conventions                                                             *)
(*   - a Python str is a sequence of one-character strings;                *)
(*   - a Python float is an exact rational [n |-> num, d |-> den], d > 0,  *)
(*     in lowest terms;                                                    *)
(*   - Optional results are records tagged by "kind": NoneV is Python's    *)
(*     None, Raised(e) an exception leaving the function, Quantity(v, u)   *)
(*     a CustomProp(value=v, unit=u).                                      *)
(***************************************************************************)
EXTENDS Integers, Sequences, FiniteSets, TLC

VARIABLES
    call,    \* the operation invoked last, with its arguments
    ret,     \* what that operation returned (or raised)
    mapping, \* the per-species mapping calc_components_hsg produced last
    source,  \* the coefficient source: component id -> range name -> raw mapping
    hsg,     \* one Species Evaluator (an HSG object)
    hsgs     \* one Species Batch Evaluator (an HSGs object)

vars == <<call, ret, mapping, source, hsg, hsgs>>

---------------------------------------------------------------------------
(* Bounds of the model *)

\* temperatures of the range-selector runs are 0..MaxTemp Kelvin
MaxTemp == 5
\* values of the converted quantities are -MaxValue..MaxValue
MaxValue == 2
\* molecular weights handed to the converter are -1..MaxMW
MaxMW == 3

---------------------------------------------------------------------------
(* Results *)

NoneV == [kind |-> "None"]
Pending == [kind |-> "Pending"]
NoObject == [kind |-> "NoObject"]
Raised(e) == [kind |-> "Raised", error |-> e]
Quantity(v, u) == [kind |-> "Quantity", value |-> v, unit |-> u]
IsQuantity(r) == r.kind = "Quantity"
IsRaised(r) == r.kind = "Raised"

---------------------------------------------------------------------------
(* Exact arithmetic standing for Python floats *)

Abs(x) == IF x < 0 THEN -x ELSE x

RECURSIVE Gcd(_, _)
Gcd(a, b) == IF b = 0 THEN a ELSE Gcd(b, a % b)

\* the rational n/d (d # 0) in lowest terms with a positive denominator; a
\* zero denominator stands for a non-finite float and stays zero
Rat(n, d) ==
    LET g == Gcd(Abs(n), Abs(d))
        s == IF d < 0 THEN -1 ELSE 1
    IN [n |-> (s * n) \div g, d |-> (s * d) \div g]

RatInt(i) == [n |-> i, d |-> 1]
RatDiv(a, b) == Rat(a.n * b.d, a.d * b.n)
RatMul(a, b) == Rat(a.n * b.n, a.d * b.d)

---------------------------------------------------------------------------
(* Python str operations used by tools.py *)

IsSpace(c) == c \in {" ", "\t"}

\* str.lower() on the letters that occur in unit strings
LowerChar(c) ==
    CASE c = "J" -> "j" [] c = "K" -> "k" [] c = "C" -> "c" [] c = "A" -> "a"
      [] c = "L" -> "l" [] c = "M" -> "m" [] c = "O" -> "o" [] c = "G" -> "g"
      [] c = "W" -> "w" [] OTHER -> c

Lower(s) == [i \in 1..Len(s) |-> LowerChar(s[i])]

\* str.replace(" ", ""): only the space character goes, a tab stays
RECURSIVE RemoveSpaces(_)
RemoveSpaces(s) ==
    IF s = <<>> THEN <<>>
    ELSE IF Head(s) = " " THEN RemoveSpaces(Tail(s))
         ELSE <<Head(s)>> \o RemoveSpaces(Tail(s))

RECURSIVE LStrip(_)
LStrip(s) == IF s # <<>> /\ IsSpace(Head(s)) THEN LStrip(Tail(s)) ELSE s

RECURSIVE RStrip(_)
RStrip(s) ==
    IF s # <<>> /\ IsSpace(s[Len(s)]) THEN RStrip(SubSeq(s, 1, Len(s) - 1)) ELSE s

\* str.strip(): leading and trailing whitespace of every kind
Strip(s) == RStrip(LStrip(s))

\* the index of the first c in s, or Len(s) + 1
RECURSIVE FindFrom(_, _, _)
FindFrom(s, c, i) ==
    IF i > Len(s) THEN Len(s) + 1
    ELSE IF s[i] = c THEN i ELSE FindFrom(s, c, i + 1)

\* s.split("/")[0]
SplitSlashFirst(s) == SubSeq(s, 1, FindFrom(s, "/", 1) - 1)

HasAt(s, i, w) ==
    /\ i >= 1
    /\ i + Len(w) - 1 <= Len(s)
    /\ SubSeq(s, i, i + Len(w) - 1) = w

\* where \s* stops when it starts at index i
RECURSIVE SkipWs(_, _)
SkipWs(s, i) == IF i <= Len(s) /\ IsSpace(s[i]) THEN SkipWs(s, i + 1) ELSE i

---------------------------------------------------------------------------
(* tools.py: _to_Kelvin, _select_nasa_type *)

KnownUnits == {"K", "C"}

\* pycuc.convert_from_to(value, unit, "K"), temperatures in whole degrees
_to_Kelvin(temp) ==
    IF temp.unit = "K" THEN RatInt(temp.value)
    ELSE IF temp.unit = "C" THEN RatInt(temp.value + 273)
    ELSE Raised("UnitConversionError")

RangeName(nasa_type, bucket) ==
    IF nasa_type = "nasa7"
    THEN CASE bucket = "low" -> "nasa7_200_1000_K"
           [] bucket = "mid" -> "nasa7_1000_6000_K"
           [] OTHER -> "nasa7_6000_20000_K"
    ELSE CASE bucket = "low" -> "nasa9_200_1000_K"
           [] bucket = "mid" -> "nasa9_1000_6000_K"
           [] OTHER -> "nasa9_6000_20000_K"

RatLeq(a, b) == a.n * b.d <= b.n * a.d
RatLt(a, b) == a.n * b.d < b.n * a.d

Val(x) == [kind |-> "Value", value |-> x]

\* the same selector with the low branch's comparison strict
_select_nasa_type_strict_low(temperature, break_temp_min, break_temp_max, nasa_type) ==
    LET T == _to_Kelvin(temperature)
        T_break_min == _to_Kelvin(break_temp_min)
        T_break_max == _to_Kelvin(break_temp_max)
    IN IF \E x \in {T, T_break_min, T_break_max} : "kind" \in DOMAIN x
       THEN Raised("UnitConversionError")
       ELSE IF RatLt(T, T_break_min)
            THEN Val(RangeName(nasa_type, "low"))
            ELSE IF RatLeq(T_break_min, T) /\ RatLeq(T, T_break_max)
                 THEN Val(RangeName(nasa_type, "mid"))
                 ELSE IF RatLt(T_break_max, T)
                      THEN Val(RangeName(nasa_type, "high"))
                      ELSE Raised("ValueError")

_select_nasa_type(temperature, break_temp_min, break_temp_max, nasa_type) ==
    LET T == _to_Kelvin(temperature)
        T_break_min == _to_Kelvin(break_temp_min)
        T_break_max == _to_Kelvin(break_temp_max)
    IN \* the try block: a failed conversion is logged and re-raised
       IF \E x \in {T, T_break_min, T_break_max} : "kind" \in DOMAIN x
       THEN Raised("UnitConversionError")
       ELSE IF RatLeq(T, T_break_min)
            THEN Val(RangeName(nasa_type, "low"))
            ELSE IF RatLt(T_break_min, T) /\ RatLeq(T, T_break_max)
                 THEN Val(RangeName(nasa_type, "mid"))
                 ELSE IF RatLt(T_break_max, T)
                      THEN Val(RangeName(nasa_type, "high"))
                      ELSE Raised("ValueError")

---------------------------------------------------------------------------
(* Specification SpecSelect: the range selector on every bounded input *)

Temperature(v, u) == [value |-> v, unit |-> u]

\* every temperature of 0..MaxTemp Kelvin, written in Kelvin and in Celsius
SelectTemps ==
    {Temperature(k, "K") : k \in 0..MaxTemp}
        \cup {Temperature(k - 273, "C") : k \in 0..MaxTemp}

NasaTypes == {"nasa7", "nasa9"}

KelvinOf(temp) == IF temp.unit = "C" THEN temp.value + 273 ELSE temp.value

SelectCalls ==
    {[op |-> "_select_nasa_type", temperature |-> t, break_temp_min |-> lo,
      break_temp_max |-> hi, nasa_type |-> f] :
        t \in SelectTemps, lo \in SelectTemps, hi \in SelectTemps, f \in NasaTypes}

InitSelect ==
    /\ call \in {c \in SelectCalls : KelvinOf(c.break_temp_min) < KelvinOf(c.break_temp_max)}
    /\ ret = Pending
    /\ mapping = NoObject
    /\ source = NoObject
    /\ hsg = NoObject
    /\ hsgs = NoObject

SelectNasaType ==
    /\ call.op = "_select_nasa_type"
    /\ ret = Pending
    /\ ret' = _select_nasa_type(call.temperature, call.break_temp_min,
                                call.break_temp_max, call.nasa_type)
    /\ UNCHANGED <<call, mapping, source, hsg, hsgs>>

NextSelect == SelectNasaType

SpecSelect == InitSelect /\ [][NextSelect]_vars

LowOf(f) == IF f = "nasa7" THEN "nasa7_200_1000_K" ELSE "nasa9_200_1000_K"
MidOf(f) == IF f = "nasa7" THEN "nasa7_1000_6000_K" ELSE "nasa9_1000_6000_K"
HighOf(f) == IF f = "nasa7" THEN "nasa7_6000_20000_K" ELSE "nasa9_6000_20000_K"

SelectDone == call.op = "_select_nasa_type" /\ ret # Pending

\* C1: for every temperature and breakpoints min < max the selector returns
\* exactly one bucket name, of the requested family: the low one iff
\* T <= min, the mid one iff min < T <= max, the high one iff T > max (all in
\* Kelvin); T = min gives low and T = max gives mid, never high.
C1_SelectPartition ==
    SelectDone =>
        LET T == KelvinOf(call.temperature)
            lo == KelvinOf(call.break_temp_min)
            hi == KelvinOf(call.break_temp_max)
            f == call.nasa_type
        IN /\ ret.kind = "Value"
           /\ ret.value \in {LowOf(f), MidOf(f), HighOf(f)}
           /\ (ret.value = LowOf(f)) <=> (T <= lo)
           /\ (ret.value = MidOf(f)) <=> (lo < T /\ T <= hi)
           /\ (ret.value = HighOf(f)) <=> (T > hi)
           /\ (T = lo => ret.value = LowOf(f))
           /\ (T = hi => ret.value = MidOf(f))

\* a Celsius temperature exactly on the min breakpoint was put in the low bucket
C1_Witness ==
    /\ SelectDone
    /\ call.temperature.unit = "C"
    /\ call.break_temp_min.unit = "K"
    /\ KelvinOf(call.temperature) = KelvinOf(call.break_temp_min)
    /\ ret = Val(LowOf(call.nasa_type))

---------------------------------------------------------------------------
(* tools.py: _UNIT_RE and _energy_or_entropy_to_mass_basis *)

\* the words of the pattern's two groups
_ENERGY_UNITS == {<<"j">>, <<"k", "j">>, <<"c", "a", "l">>, <<"k", "c", "a", "l">>}
AmountWords == {<<"m", "o", "l">>, <<"k", "m", "o", "l">>}

\* One way the pattern
\*   ^\s* (j|kj|cal|kcal) \s*/\s* (mol|kmol) (?:\.(k))? \s*$
\* (IGNORECASE) can lie on s: energy word e, amount word a, with or without ".k".
UnitReFits(s, e, a, k) ==
    LET l == Lower(s)
        p1 == SkipWs(l, 1)
        p2 == SkipWs(l, p1 + Len(e))
        p3 == SkipWs(l, p2 + 1)
        p4 == p3 + Len(a)
        p5 == IF k THEN p4 + 2 ELSE p4
    IN /\ HasAt(l, p1, e)
       /\ HasAt(l, p2, <<"/">>)
       /\ HasAt(l, p3, a)
       /\ (k => HasAt(l, p4, <<".", "k">>))
       /\ SkipWs(l, p5) = Len(l) + 1

\* _UNIT_RE.match(s): the groups of the match, or NoneV
_UNIT_RE_match(s) ==
    LET fits == {m \in [eu : _ENERGY_UNITS, amount : AmountWords, temp : BOOLEAN] :
                    UnitReFits(s, m.eu, m.amount, m.temp)}
    IN IF fits = {} THEN NoneV ELSE CHOOSE m \in fits : TRUE

Kg == <<"/", "k", "g">>
KgK == <<"/", "k", "g", ".", "K">>

\* the converter without the molecular-weight guard
_energy_or_entropy_to_mass_basis_no_mw_check(value, mw_g_per_mol) ==
    LET unit_raw == Strip(value.unit)
        unit_norm == RemoveSpaces(Lower(unit_raw))
        match == _UNIT_RE_match(unit_norm)
    IN IF mw_g_per_mol = 0 THEN Raised("ZeroDivisionError")
       ELSE IF match = NoneV THEN Raised("ValueError")
       ELSE LET energy_unit_out == Strip(SplitSlashFirst(unit_raw))
                mass_value ==
                    IF match.amount = <<"m", "o", "l">>
                    THEN RatDiv(value.value, RatDiv(RatInt(mw_g_per_mol), RatInt(1000)))
                    ELSE RatDiv(value.value, RatInt(mw_g_per_mol))
                mass_unit == energy_unit_out \o (IF match.temp THEN KgK ELSE Kg)
            IN Quantity(mass_value, mass_unit)

\* the converter dividing by MW/1000 whatever the amount basis
_energy_or_entropy_to_mass_basis_mol_only(value, mw_g_per_mol) ==
    LET unit_raw == Strip(value.unit)
        unit_norm == RemoveSpaces(Lower(unit_raw))
        match == _UNIT_RE_match(unit_norm)
    IN IF mw_g_per_mol <= 0 THEN Raised("ValueError")
       ELSE IF match = NoneV THEN Raised("ValueError")
       ELSE LET energy_unit_out == Strip(SplitSlashFirst(unit_raw))
                mass_value ==
                    RatDiv(value.value, RatDiv(RatInt(mw_g_per_mol), RatInt(1000)))
                mass_unit == energy_unit_out \o (IF match.temp THEN KgK ELSE Kg)
            IN Quantity(mass_value, mass_unit)

\* the converter writing the matched (lower-cased) energy unit to the output
_energy_or_entropy_to_mass_basis_lower_unit(value, mw_g_per_mol) ==
    LET unit_raw == Strip(value.unit)
        unit_norm == RemoveSpaces(Lower(unit_raw))
        match == _UNIT_RE_match(unit_norm)
    IN IF mw_g_per_mol <= 0 THEN Raised("ValueError")
       ELSE IF match = NoneV THEN Raised("ValueError")
       ELSE LET mass_value ==
                    IF match.amount = <<"m", "o", "l">>
                    THEN RatDiv(value.value, RatDiv(RatInt(mw_g_per_mol), RatInt(1000)))
                    ELSE RatDiv(value.value, RatInt(mw_g_per_mol))
                mass_unit == match.eu \o (IF match.temp THEN KgK ELSE Kg)
            IN Quantity(mass_value, mass_unit)

\* the converter matching the pattern against the stripped unit, spaces kept
_energy_or_entropy_to_mass_basis_keep_spaces(value, mw_g_per_mol) ==
    LET unit_raw == Strip(value.unit)
        match == _UNIT_RE_match(Lower(unit_raw))
    IN IF mw_g_per_mol <= 0 THEN Raised("ValueError")
       ELSE IF match = NoneV THEN Raised("ValueError")
       ELSE LET energy_unit_out == Strip(SplitSlashFirst(unit_raw))
                mass_value ==
                    IF match.amount = <<"m", "o", "l">>
                    THEN RatDiv(value.value, RatDiv(RatInt(mw_g_per_mol), RatInt(1000)))
                    ELSE RatDiv(value.value, RatInt(mw_g_per_mol))
                mass_unit == energy_unit_out \o (IF match.temp THEN KgK ELSE Kg)
            IN Quantity(mass_value, mass_unit)

\* Every exception of the try block is logged and re-raised: the result is
\* Raised(..) or the converted CustomProp.
_energy_or_entropy_to_mass_basis(value, mw_g_per_mol) ==
    LET unit_raw == Strip(value.unit)
        unit_norm == RemoveSpaces(Lower(unit_raw))
        match == _UNIT_RE_match(unit_norm)
    IN IF mw_g_per_mol <= 0 THEN Raised("ValueError")
       ELSE IF match = NoneV THEN Raised("ValueError")
       ELSE LET \* preserve the original casing: the raw text before the first slash
                energy_unit_out == Strip(SplitSlashFirst(unit_raw))
                mass_value ==
                    IF match.amount = <<"m", "o", "l">>
                    THEN \* mw_kg_per_mol = mw / 1000.0; value / mw_kg_per_mol
                         RatDiv(value.value, RatDiv(RatInt(mw_g_per_mol), RatInt(1000)))
                    ELSE \* kmol: g/mol numerically equals kg/kmol
                         RatDiv(value.value, RatInt(mw_g_per_mol))
                mass_unit == energy_unit_out \o (IF match.temp THEN KgK ELSE Kg)
            IN Quantity(mass_value, mass_unit)

---------------------------------------------------------------------------
(* Specification SpecUnit: the converter on a pool of unit strings *)

\* A unit string of the pool is pad \o energy \o separator \o amount \o tail \o pad.
UnitPads == {<<>>, <<" ">>, <<"\t">>}
UnitEnergies ==
    {<<"J">>, <<"k", "J">>, <<"K", "j">>, <<"c", "a", "l">>, <<"k", "C", "a", "l">>,
     <<"k", " ", "J">>, <<"k", "\t", "J">>, <<"W">>}
UnitSeparators ==
    {<<"/">>, <<" ", "/", " ">>, <<"\t", "/">>, <<"/", "\t">>, <<"/", "/">>, <<".">>}
UnitAmounts ==
    {<<"m", "o", "l">>, <<"k", "m", "o", "l">>, <<"K", "M", "O", "L">>, <<"g">>}
UnitTails ==
    {<<>>, <<".", "K">>, <<".", "k">>, <<"/", "K">>, <<".", " ", "K">>,
     <<".", "\t", "K">>, <<"\t", ".", "K">>, <<"K">>}

UnitPool ==
    {p \o e \o sep \o a \o t \o p :
        p \in UnitPads, e \in UnitEnergies, sep \in UnitSeparators,
        a \in UnitAmounts, t \in UnitTails}

ConvertCalls ==
    {[op |-> "_energy_or_entropy_to_mass_basis",
      value |-> Quantity(RatInt(v), u), mw_g_per_mol |-> mw] :
        v \in {-MaxValue, 0, MaxValue}, u \in UnitPool, mw \in {-1, 0, MaxMW}}

InitUnit ==
    /\ call \in ConvertCalls
    /\ ret = Pending
    /\ mapping = NoObject
    /\ source = NoObject
    /\ hsg = NoObject
    /\ hsgs = NoObject

EnergyOrEntropyToMassBasis ==
    /\ call.op = "_energy_or_entropy_to_mass_basis"
    /\ ret = Pending
    /\ ret' = _energy_or_entropy_to_mass_basis(call.value, call.mw_g_per_mol)
    /\ UNCHANGED <<call, mapping, source, hsg, hsgs>>

NextUnit == EnergyOrEntropyToMassBasis

SpecUnit == InitUnit /\ [][NextUnit]_vars

ConvertDone == call.op = "_energy_or_entropy_to_mass_basis" /\ ret # Pending

\* the sixteen strings energyUnit "/" amountBasis [".k"], in lower case
UnitForms ==
    {e \o <<"/">> \o a \o t :
        e \in _ENERGY_UNITS, a \in AmountWords, t \in {<<>>, <<".", "k">>}}

CountOf(s, c) == Cardinality({i \in 1..Len(s) : s[i] = c})

\* whitespace with nothing but whitespace between it and a slash
NextToSlash(s, i) ==
    /\ IsSpace(s[i])
    /\ \E j \in 1..Len(s) :
          /\ s[j] = "/"
          /\ \A m \in 1..Len(s) : ((i < m /\ m < j) \/ (j < m /\ m < i)) => IsSpace(s[m])

RECURSIVE Keep(_, _, _)
Keep(s, i, drop) ==
    IF i > Len(s) THEN <<>>
    ELSE (IF i \in drop THEN <<>> ELSE <<s[i]>>) \o Keep(s, i + 1, drop)

\* s without its leading and trailing whitespace, without the whitespace around
\* a slash and without space characters, in lower case
UnitSkeleton(s) ==
    LET t == Strip(s)
    IN Lower(Keep(t, 1, {i \in 1..Len(t) : t[i] = " " \/ NextToSlash(t, i)}))

J_mol == <<"J", "/", "m", "o", "l">>
kJ_kmol == <<"k", "J", "/", "k", "m", "o", "l">>
J_mol_K == <<"J", "/", "m", "o", "l", ".", "K">>
kJ_kmol_K == <<"k", "J", "/", "k", "m", "o", "l", ".", "K">>

\* C5 as stated: with a valid molecular weight the unit is accepted iff,
\* ignoring letter case and space characters, it is one of the forms
\* energyUnit "/" amountBasis [".K"].
C5_AcceptedIffFormIgnoringSpaces ==
    (ConvertDone /\ call.mw_g_per_mol > 0) =>
        (IsQuantity(ret) <=> Lower(RemoveSpaces(call.value.unit)) \in UnitForms)

\* C5 amended: with a valid molecular weight the unit is accepted iff it is one
\* of the forms energyUnit "/" amountBasis [".K"] once letter case, space
\* characters, leading and trailing whitespace and any whitespace (a tab too)
\* next to the slash are ignored; "J/mol", "kJ/kmol", "J/mol.K" and
\* "kJ/kmol.K" are accepted, and a unit with a second slash is rejected with
\* an error.
C5_AcceptedIffForm ==
    (ConvertDone /\ call.mw_g_per_mol > 0) =>
        /\ IsQuantity(ret) <=> UnitSkeleton(call.value.unit) \in UnitForms
        /\ call.value.unit \in {J_mol, kJ_kmol, J_mol_K, kJ_kmol_K} => IsQuantity(ret)
        /\ CountOf(call.value.unit, "/") >= 2 => IsRaised(ret)
        /\ IsQuantity(ret) \/ IsRaised(ret)

\* "J/mol/K" was offered with a valid molecular weight and rejected
C5_Witness ==
    /\ ConvertDone
    /\ call.mw_g_per_mol > 0
    /\ call.value.unit = <<"J", "/", "m", "o", "l", "/", "K">>
    /\ IsRaised(ret)

\* C6: for a valid unit and MW > 0 the returned value is value / (MW/1000) when
\* the amount basis is "mol" and value / MW when it is "kmol", whatever the
\* energy unit and whether or not ".K" is present.
C6_MassValue ==
    (ConvertDone /\ IsQuantity(ret)) =>
        LET v == call.value.value.n
            mw == call.mw_g_per_mol
            u == UnitSkeleton(call.value.unit)
            kmol == \E e \in _ENERGY_UNITS :
                        HasAt(u, 1, e \o <<"/", "k", "m", "o", "l">>)
        IN /\ mw > 0
           /\ ret.value = (IF kmol THEN Rat(v, mw) ELSE Rat(1000 * v, mw))

\* a kcal/kmol.K quantity was converted: no scaling for kcal or for ".K"
C6_Witness ==
    /\ ConvertDone
    /\ IsQuantity(ret)
    /\ call.value.unit = <<"k", "C", "a", "l", "/", "k", "m", "o", "l", ".", "K">>
    /\ call.value.value = RatInt(MaxValue)
    /\ ret.value = Rat(MaxValue, MaxMW)

\* the text of a unit string before its first slash, whitespace around it dropped
EnergyText(u) ==
    LET slash == FindFrom(u, "/", 1)
        inner == {i \in 1..(slash - 1) : ~IsSpace(u[i])}
    IN IF inner = {} THEN <<>>
       ELSE LET first == CHOOSE i \in inner : \A j \in inner : i <= j
                last == CHOOSE i \in inner : \A j \in inner : j <= i
            IN [i \in 1..(last - first + 1) |-> u[first + i - 1]]

\* whether a unit string ends in the temperature dimension ".K" (any case)
HasTemperatureDimension(u) ==
    LET t == Lower(RemoveSpaces(Strip(u)))
    IN Len(t) >= 2 /\ t[Len(t) - 1] = "." /\ t[Len(t)] = "k"

\* C7: for every accepted unit the returned unit string is the energy-unit
\* text of the input, in its original letter casing, followed by "/kg.K" when
\* the input had the temperature dimension and by "/kg" when it had not.
C7_MassUnit ==
    (ConvertDone /\ IsQuantity(ret)) =>
        LET e == EnergyText(call.value.unit)
        IN /\ ret.unit = e \o (IF HasTemperatureDimension(call.value.unit) THEN KgK ELSE Kg)
           /\ Lower(RemoveSpaces(e)) \in _ENERGY_UNITS

\* "Kj / mol.k" (padded) came back as "Kj/kg.K"
C7_Witness ==
    /\ ConvertDone
    /\ call.value.unit = <<" ", "K", "j", " ", "/", " ", "m", "o", "l", ".", "k", " ">>
    /\ IsQuantity(ret)
    /\ ret.unit = <<"K", "j", "/", "k", "g", ".", "K">>

\* C8: for every molecular weight <= 0 the converter fails with an error and
\* returns no Quantity, whatever the value and the unit string, valid or not.
C8_NonPositiveMW ==
    (ConvertDone /\ call.mw_g_per_mol <= 0) => IsRaised(ret)

\* both a valid and an invalid unit were offered with MW = 0 and -1
C8_Witness ==
    /\ ConvertDone
    /\ call.mw_g_per_mol = -1
    /\ call.value.unit = J_mol
    /\ call.value.value = RatInt(MaxValue)
    /\ IsRaised(ret)

---------------------------------------------------------------------------
(* tools.py: _require_coeffs *)

SeqRange(q) == {q[i] : i \in 1..Len(q)}

\* _require_coeffs putting 0 for a missing key
_require_coeffs_default_zero(coeffs, required) ==
    [k \in SeqRange(required) |-> IF k \in DOMAIN coeffs THEN coeffs[k] ELSE 0]

\* None when a required key is missing, else the required keys with their raw values
_require_coeffs(coeffs, required) ==
    LET missing == SelectSeq(required, LAMBDA k : k \notin DOMAIN coeffs)
    IN IF missing # <<>> THEN NoneV
       ELSE [k \in SeqRange(required) |-> coeffs[k]]

---------------------------------------------------------------------------
(* The closed-form polynomials of pyThermoCalcDB, called by hsg.py.  They  *)
(* are known primitives outside this repository; the model keeps which    *)
(* coefficients each formula reads, the unit of its result, and that it   *)
(* converts the temperature to Kelvin, and replaces the formula by an     *)
(* integer combination of what it reads.                                  *)

Unit_J_mol == <<"J", "/", "m", "o", "l">>
Unit_J_mol_K == <<"J", "/", "m", "o", "l", ".", "K">>

\* the NASA-9 primitives: Cp reads a1..a7, H also b1, S also b2
A9(c) == c["a1"] + 2 * c["a2"] + 3 * c["a3"] + 4 * c["a4"] + 5 * c["a5"]
            + 6 * c["a6"] + 7 * c["a7"]
\* a heat capacity that reads b1
Cp9_reads_b1(c, t) == A9(c) + t + c["b1"]
Cp9(c, t) == A9(c) + t
H9(c, t) == A9(c) + 3 * t + 8 * c["b1"]
S9(c, t) == A9(c) + (t \div 100) + 9 * c["b2"]

\* the NASA-7 primitives: Cp reads a1..a5, H also a6, S also a7
A7(c) == c["a1"] + 2 * c["a2"] + 3 * c["a3"] + 4 * c["a4"] + 5 * c["a5"]
Cp7(c, t) == A7(c) + t
H7(c, t) == A7(c) + 3 * t + 6 * c["a6"]
S7(c, t) == A7(c) + (t \div 100) + 7 * c["a7"]

IsNasa9(nasa_type) ==
    nasa_type \in {"nasa9_200_1000_K", "nasa9_1000_6000_K", "nasa9_6000_20000_K"}
IsNasa7(nasa_type) ==
    nasa_type \in {"nasa7_200_1000_K", "nasa7_1000_6000_K", "nasa7_6000_20000_K"}

PropNames == {"enthalpy", "entropy", "gibbs", "heat_capacity"}

\* float('inf') as a coefficient value: an integer above every value the
\* model computes, and the non-finite float as a result
Infinity == 1000000
NonFinite == [n |-> 1, d |-> 0]
IsFinite(x) == x.d # 0

\* the coefficients each primitive reads
ReadBy(prop, nasa9) ==
    LET cp == IF nasa9 THEN {"a1", "a2", "a3", "a4", "a5", "a6", "a7"}
              ELSE {"a1", "a2", "a3", "a4", "a5"}
        h == cp \cup (IF nasa9 THEN {"b1"} ELSE {"a6"})
        e == cp \cup (IF nasa9 THEN {"b2"} ELSE {"a7"})
    IN CASE prop = "enthalpy" -> h
         [] prop = "entropy" -> e
         [] prop = "gibbs" -> h \cup e
         [] OTHER -> cp

PolynomialUnit(prop) ==
    IF prop \in {"enthalpy", "gibbs"} THEN Unit_J_mol ELSE Unit_J_mol_K

\* the formulas on finite coefficients and t Kelvin
PolynomialValue(prop, nasa9, pack, t) ==
    LET h == IF nasa9 THEN H9(pack, t) ELSE H7(pack, t)
        e == IF nasa9 THEN S9(pack, t) ELSE S7(pack, t)
        cp == IF nasa9 THEN Cp9(pack, t) ELSE Cp7(pack, t)
    IN CASE prop = "enthalpy" -> h
         [] prop = "entropy" -> e
         [] prop = "gibbs" -> h - t * e
         [] OTHER -> cp

\* En_IG_NASA*_polynomial, S_IG_NASA*_polynomial, GiFrEn_IG (G = H - T S) and
\* Cp_IG_NASA*_polynomial on a pack and a Temperature; float arithmetic on a
\* non-finite coefficient gives a non-finite result and raises nothing
Polynomial(prop, nasa9, pack, temperature) ==
    LET T == _to_Kelvin(temperature)
    IN IF "kind" \in DOMAIN T THEN T
       ELSE IF \E k \in ReadBy(prop, nasa9) : pack[k] = Infinity
            THEN Quantity(NonFinite, PolynomialUnit(prop))
            ELSE Quantity(RatInt(PolynomialValue(prop, nasa9, pack, T.n)),
                          PolynomialUnit(prop))

---------------------------------------------------------------------------
(* hsg.py: the Species Evaluator HSG *)

req_coeffs_NASA7 == <<"a1", "a2", "a3", "a4", "a5", "a6", "a7">>
req_coeffs_NASA9 == <<"a1", "a2", "a3", "a4", "a5", "a6", "a7", "b1", "b2">>
req_props == <<"MW">>

RangeNames(nasa_type) ==
    IF nasa_type = "nasa9"
    THEN {"nasa9_200_1000_K", "nasa9_1000_6000_K", "nasa9_6000_20000_K"}
    ELSE IF nasa_type = "nasa7"
         THEN {"nasa7_200_1000_K", "nasa7_1000_6000_K", "nasa7_6000_20000_K"}
         ELSE {}

\* DataExtractor._get_equation_source(..).source.parms_values: the raw mapping
\* the source holds for (component, range name), or None
_extract_nasa_coefficients(src, component_id, prop_name) ==
    IF component_id \in DOMAIN src /\ prop_name \in DOMAIN src[component_id]
    THEN src[component_id][prop_name]
    ELSE NoneV

\* HSG.__init__: the three raw mappings of the chosen family are read once;
\* _props is the class attribute None
HSG(src, component_id, nasa_type, basis) ==
    [component_id |-> component_id,
     basis |-> basis,
     coefficients |-> [nm \in RangeNames(nasa_type) |->
                          _extract_nasa_coefficients(src, component_id, nm)],
     props |-> NoneV]

_set_props(coeffs) == _require_coeffs(coeffs, req_props)

\* _set_nasa_coefficients with the mid branches reading the low attribute
_set_nasa_coefficients_low_for_mid(self, nasa_type) ==
    LET attr == IF nasa_type = "nasa9_1000_6000_K" THEN "nasa9_200_1000_K"
                ELSE IF nasa_type = "nasa7_1000_6000_K" THEN "nasa7_200_1000_K"
                ELSE nasa_type
    IN IF ~(IsNasa9(nasa_type) \/ IsNasa7(nasa_type)) THEN [pack |-> NoneV, props |-> self.props]
       ELSE IF attr \notin DOMAIN self.coefficients THEN [pack |-> NoneV, props |-> self.props]
       ELSE LET coeffs == self.coefficients[attr]
                pack == IF coeffs = NoneV THEN NoneV
                        ELSE _require_coeffs(coeffs, IF IsNasa9(nasa_type)
                                                     THEN req_coeffs_NASA9
                                                     ELSE req_coeffs_NASA7)
            IN IF pack = NoneV THEN [pack |-> NoneV, props |-> self.props]
               ELSE [pack |-> pack, props |-> _set_props(coeffs)]

\* _set_nasa_coefficients filling the props cache only while it is empty
_set_nasa_coefficients_props_once(self, nasa_type) ==
    IF ~(IsNasa9(nasa_type) \/ IsNasa7(nasa_type)) THEN [pack |-> NoneV, props |-> self.props]
    ELSE IF nasa_type \notin DOMAIN self.coefficients THEN [pack |-> NoneV, props |-> self.props]
    ELSE LET coeffs == self.coefficients[nasa_type]
             pack == IF coeffs = NoneV THEN NoneV
                     ELSE _require_coeffs(coeffs, IF IsNasa9(nasa_type)
                                                  THEN req_coeffs_NASA9
                                                  ELSE req_coeffs_NASA7)
         IN IF pack = NoneV THEN [pack |-> NoneV, props |-> self.props]
            ELSE [pack |-> pack,
                  props |-> IF self.props = NoneV THEN _set_props(coeffs) ELSE self.props]

\* _set_nasa_coefficients: the pack of the requested range, or None; on success
\* self.props is overwritten from the same raw mapping.  The result is the
\* returned pack together with the value of self.props afterwards.
_set_nasa_coefficients(self, nasa_type) ==
    IF ~(IsNasa9(nasa_type) \/ IsNasa7(nasa_type))
    THEN \* invalid type
         [pack |-> NoneV, props |-> self.props]
    ELSE IF nasa_type \notin DOMAIN self.coefficients
    THEN \* the attribute of the other family was never set: AttributeError,
         \* caught by the except clause
         [pack |-> NoneV, props |-> self.props]
    ELSE LET coeffs == self.coefficients[nasa_type]
             pack == IF coeffs = NoneV THEN NoneV
                     ELSE _require_coeffs(coeffs, IF IsNasa9(nasa_type)
                                                  THEN req_coeffs_NASA9
                                                  ELSE req_coeffs_NASA7)
         IN IF pack = NoneV THEN [pack |-> NoneV, props |-> self.props]
            ELSE [pack |-> pack, props |-> _set_props(coeffs)]

\* the result of the converter as the operation returns it: an exception of
\* the converter is caught and gives None
mass_or_none(mass) == IF IsRaised(mass) THEN NoneV ELSE mass

\* calc_return leaving the evaluator on molar basis once it has converted
calc_return_molar_after(self, value) ==
    [ret |-> IF IsRaised(value) \/ value = NoneV THEN NoneV
             ELSE IF self.basis = "mass" /\ self.props # NoneV /\ "MW" \in DOMAIN self.props
                  THEN mass_or_none(_energy_or_entropy_to_mass_basis(value, self.props["MW"]))
                  ELSE value,
     self |-> [self EXCEPT !.basis = "molar"]]

\* what a property operation returns once the polynomial has given value: None
\* for None or an exception, the mass-basis conversion when the basis is mass
\* and self.props holds MW, else value
calc_return(self, value) ==
    [ret |-> IF IsRaised(value) \/ value = NoneV THEN NoneV
             ELSE IF self.basis = "mass" /\ self.props # NoneV /\ "MW" \in DOMAIN self.props
                  THEN mass_or_none(_energy_or_entropy_to_mass_basis(value, self.props["MW"]))
                  ELSE value,
     self |-> self]

\* a property operation once _set_nasa_coefficients has given got: no pack
\* gives None, else the polynomial is evaluated on the pack
calc_with_pack(self, prop, temperature, nasa_type, got) ==
    calc_return([self EXCEPT !.props = got.props],
                IF got.pack = NoneV THEN NoneV
                ELSE Polynomial(prop, IsNasa9(nasa_type), got.pack, temperature))

\* The common body of calc_absolute_enthalpy, calc_absolute_entropy,
\* calc_gibbs_free_energy and calc_heat_capacity: the result and the evaluator
\* afterwards.  Every exception is caught and turned into None.
calc_property(self, prop, temperature, nasa_type) ==
    calc_with_pack(self, prop, temperature, nasa_type,
                   _set_nasa_coefficients(self, nasa_type))

calc_absolute_enthalpy(self, temperature, nasa_type) ==
    calc_property(self, "enthalpy", temperature, nasa_type)

calc_absolute_entropy(self, temperature, nasa_type) ==
    calc_property(self, "entropy", temperature, nasa_type)

calc_gibbs_free_energy(self, temperature, nasa_type) ==
    calc_property(self, "gibbs", temperature, nasa_type)

calc_heat_capacity(self, temperature, nasa_type) ==
    calc_property(self, "heat_capacity", temperature, nasa_type)

---------------------------------------------------------------------------
(* Specification SpecHSG: one Species Evaluator and its property operations *)

\* Raw coefficient mappings a source may hold for the range with index b
\* (1 low, 2 mid, 3 high).  The values differ from range to range.
CoeffKeys9 == {"a1", "a2", "a3", "a4", "a5", "a6", "a7", "b1", "b2"}
RawValue(k, b) ==
    CASE k = "MW" -> 16 + 2 * b
      [] k \in {"b1", "b2"} -> b + 2
      [] k \in {"a1", "a3", "a5", "a7"} -> b
      [] OTHER -> b + 1

RawOver(keys, b) == [k \in keys |-> RawValue(k, b)]

\* The low range takes every shape; the mid and high ranges take fewer, which
\* keeps the number of sources small.
RawShapes(b) ==
    {NoneV,
     RawOver(CoeffKeys9 \cup {"MW"}, b)}                   \* complete, with MW
    \cup (IF b <= 2
          THEN {RawOver(CoeffKeys9, b),                    \* complete, no MW
                [RawOver(CoeffKeys9 \cup {"MW"}, b) EXCEPT !["MW"] = 0]}  \* MW = 0
          ELSE {})
    \cup (IF b = 1
          THEN {RawOver((CoeffKeys9 \ {"b1", "b2"}) \cup {"MW"}, b),  \* a1..a7, MW
                RawOver((CoeffKeys9 \ {"a7"}) \cup {"MW"}, b),        \* a7 missing
                [RawOver(CoeffKeys9 \cup {"MW"}, b) EXCEPT !["a1"] = Infinity]}
          ELSE {})

RangeIndex(nm) ==
    CASE nm \in {"nasa7_200_1000_K", "nasa9_200_1000_K"} -> 1
      [] nm \in {"nasa7_1000_6000_K", "nasa9_1000_6000_K"} -> 2
      [] OTHER -> 3

\* every source of one component for one family
SourcesOf(component_id, nasa_type) ==
    {[c \in {component_id} |-> f] :
        f \in {g \in [RangeNames(nasa_type) -> UNION {RawShapes(b) : b \in 1..3}] :
                  \A nm \in RangeNames(nasa_type) : g[nm] \in RawShapes(RangeIndex(nm))}}

BasisTypes == {"molar", "mass"}

\* the family an evaluator was constructed for
FamilyOf(self) ==
    IF "nasa9_200_1000_K" \in DOMAIN self.coefficients THEN "nasa9" ELSE "nasa7"

EvalTemps == {Temperature(227, "C")}

\* the range names passed to an evaluator of a family: its own three, one of
\* the other family and an unknown tag
RangeTags(nasa_type) ==
    RangeNames(nasa_type)
        \cup {IF nasa_type = "nasa9" THEN "nasa7_200_1000_K" ELSE "nasa9_200_1000_K",
              "nasa5_200_1000_K"}

InitHSG ==
    /\ \E f \in NasaTypes, b \in BasisTypes :
          /\ source \in SourcesOf("c1", f)
          /\ hsg = HSG(source, "c1", f, b)
          /\ call = [op |-> "HSG", nasa_type |-> f]
    /\ ret = NoneV
    /\ mapping = NoObject
    /\ hsgs = NoObject

CalcAbsoluteEnthalpy ==
    \E t \in EvalTemps, nm \in RangeTags(FamilyOf(hsg)) :
        \E r \in {calc_absolute_enthalpy(hsg, t, nm)} :
           /\ call' = [op |-> "enthalpy", temperature |-> t, nasa_type |-> nm]
           /\ ret' = r.ret
           /\ hsg' = r.self
           /\ UNCHANGED <<mapping, source, hsgs>>

CalcAbsoluteEntropy ==
    \E t \in EvalTemps, nm \in RangeTags(FamilyOf(hsg)) :
        \E r \in {calc_absolute_entropy(hsg, t, nm)} :
           /\ call' = [op |-> "entropy", temperature |-> t, nasa_type |-> nm]
           /\ ret' = r.ret
           /\ hsg' = r.self
           /\ UNCHANGED <<mapping, source, hsgs>>

CalcGibbsFreeEnergy ==
    \E t \in EvalTemps, nm \in RangeTags(FamilyOf(hsg)) :
        \E r \in {calc_gibbs_free_energy(hsg, t, nm)} :
           /\ call' = [op |-> "gibbs", temperature |-> t, nasa_type |-> nm]
           /\ ret' = r.ret
           /\ hsg' = r.self
           /\ UNCHANGED <<mapping, source, hsgs>>

CalcHeatCapacity ==
    \E t \in EvalTemps, nm \in RangeTags(FamilyOf(hsg)) :
        \E r \in {calc_heat_capacity(hsg, t, nm)} :
           /\ call' = [op |-> "heat_capacity", temperature |-> t, nasa_type |-> nm]
           /\ ret' = r.ret
           /\ hsg' = r.self
           /\ UNCHANGED <<mapping, source, hsgs>>

NextHSG ==
    \/ CalcAbsoluteEnthalpy
    \/ CalcAbsoluteEntropy
    \/ CalcGibbsFreeEnergy
    \/ CalcHeatCapacity

SpecHSG == InitHSG /\ [][NextHSG]_vars

CalcDone == call.op \in PropNames

\* the raw mapping the source holds for the range the last call asked for
RequestedRaw == _extract_nasa_coefficients(source, hsg.component_id, call.nasa_type)

RequiredKeys(nasa_type) ==
    IF IsNasa9(nasa_type) THEN {"a1", "a2", "a3", "a4", "a5", "a6", "a7", "b1", "b2"}
    ELSE {"a1", "a2", "a3", "a4", "a5", "a6", "a7"}

\* the requested range is one of the evaluator's family and its raw mapping
\* holds every required key
RequestedComplete ==
    /\ call.nasa_type \in RangeNames(FamilyOf(hsg))
    /\ RequestedRaw # NoneV
    /\ RequiredKeys(call.nasa_type) \subseteq DOMAIN RequestedRaw

\* the molar result of the polynomial of the last call
RequestedPolynomial ==
    Polynomial(call.op, IsNasa9(call.nasa_type), RequestedRaw, call.temperature)

MassUnitOf(prop) ==
    IF prop \in {"entropy", "heat_capacity"}
    THEN <<"J", "/", "k", "g", ".", "K">>
    ELSE <<"J", "/", "k", "g">>

\* C9: for each of the four property operations, on a range with a complete
\* pack: with basis mass and MW among the raw coefficients of that range the
\* result is the mass-basis conversion of the polynomial result (value divided
\* by MW/1000, unit J/kg or J/kg.K), and nothing is returned when that
\* conversion fails; with basis mass and no MW there, and with basis molar,
\* the result is the polynomial result unchanged, molar unit included.
C9_MassBasis ==
    (CalcDone /\ RequestedComplete) =>
        LET raw == RequestedRaw
            poly == RequestedPolynomial
        IN IF hsg.basis = "mass" /\ "MW" \in DOMAIN raw
           THEN IF raw["MW"] > 0
                THEN ret = Quantity(Rat(1000 * poly.value.n, raw["MW"] * poly.value.d),
                                    MassUnitOf(call.op))
                ELSE ret = NoneV
           ELSE ret = poly

\* a mass-basis entropy on the mid range, whose source holds an MW other than
\* the MW of the low range, came back in J/kg.K
C9_Witness ==
    /\ CalcDone
    /\ RequestedComplete
    /\ call.op = "entropy"
    /\ hsg.basis = "mass"
    /\ RangeIndex(call.nasa_type) = 2
    /\ "MW" \in DOMAIN RequestedRaw
    /\ \E nm \in DOMAIN hsg.coefficients :
          /\ RangeIndex(nm) = 1
          /\ hsg.coefficients[nm] # NoneV
          /\ "MW" \in DOMAIN hsg.coefficients[nm]
          /\ hsg.coefficients[nm]["MW"] # RequestedRaw["MW"]
    /\ IsQuantity(ret)
    /\ ret.unit = <<"J", "/", "k", "g", ".", "K">>

\* the raw mapping of the requested range can be used: complete, and its MW,
\* when there is one, is a molecular weight (positive)
RequestedUsable ==
    /\ RequestedComplete
    /\ ("MW" \in DOMAIN RequestedRaw => RequestedRaw["MW"] > 0)

\* the source with everything but the requested range of the evaluator removed
OnlyRequested ==
    [id \in DOMAIN source |->
        [nm \in DOMAIN source[id] |->
            IF id = hsg.component_id /\ nm = call.nasa_type THEN source[id][nm] ELSE NoneV]]

\* C10: availability is per range.  A property operation on a range of the
\* evaluator's family whose raw mapping is absent returns None and one on a
\* range whose mapping is complete returns a Quantity, whatever the source
\* holds for the other two ranges: the result is the one a new evaluator gives
\* over a source that holds the requested range only.
C10_BucketIndependence ==
    (CalcDone /\ call.nasa_type \in RangeNames(FamilyOf(hsg))) =>
        /\ (RequestedRaw = NoneV => ret = NoneV)
        /\ (RequestedUsable => IsQuantity(ret))
        /\ ret = calc_property(HSG(OnlyRequested, hsg.component_id, FamilyOf(hsg), hsg.basis),
                               call.op, call.temperature, call.nasa_type).ret

\* only the mid range has data and the mid request gave a Quantity
C10_Witness ==
    /\ CalcDone
    /\ RangeIndex(call.nasa_type) = 2
    /\ RequestedUsable
    /\ \A nm \in DOMAIN hsg.coefficients :
          RangeIndex(nm) # 2 => hsg.coefficients[nm] = NoneV
    /\ IsQuantity(ret)

---------------------------------------------------------------------------
(* hsgs.py: the Species Batch Evaluator HSGs *)

\* pythermodb_settings.utils.set_component_id: the canonical identity of a
\* component under a key scheme (a pair stands for the joined string)
set_component_id(component, component_key) ==
    CASE component_key = "Name-Formula" -> <<component.name, component.formula>>
      [] component_key = "Formula-State" -> <<component.formula, component.state>>
      [] OTHER -> <<component.name, component.state>>

\* f"{component.formula}-{component.state}"
RoleKey(component) == <<component.formula, component.state>>

\* the family's breakpoints of configs.constants
TEMPERATURE_BREAK_NASA7_1000_K == 1000
TEMPERATURE_BREAK_NASA7_6000_K == 6000
TEMPERATURE_BREAK_NASA9_1000_K == 1000
TEMPERATURE_BREAK_NASA9_6000_K == 6000

\* the keys of a dict filled in the order of q: first occurrences, in order
RECURSIVE DictOrder(_)
DictOrder(q) ==
    IF q = <<>> THEN <<>>
    ELSE LET front == DictOrder(SubSeq(q, 1, Len(q) - 1))
             k == q[Len(q)]
         IN IF k \in SeqRange(front) THEN front ELSE Append(front, k)

\* HSGs.__init__ with build_components_hsg: one molar HSG per component id
HSGs(src, components, component_key, nasa_type) ==
    LET component_ids == [i \in 1..Len(components) |->
                             set_component_id(components[i], component_key)]
        \* a later component with the same id overwrites the entry
        last(id) == CHOOSE i \in 1..Len(components) :
                        /\ component_ids[i] = id
                        /\ \A j \in 1..Len(components) : component_ids[j] = id => j <= i
    IN [nasa_type |-> nasa_type,
        component_ids |-> component_ids,
        reaction_component_ids |->
            [id \in SeqRange(component_ids) |-> RoleKey(components[last(id)])],
        nasa_temperature_break_min |->
            Temperature(IF nasa_type = "nasa7" THEN TEMPERATURE_BREAK_NASA7_1000_K
                        ELSE TEMPERATURE_BREAK_NASA9_1000_K, "K"),
        nasa_temperature_break_max |->
            Temperature(IF nasa_type = "nasa7" THEN TEMPERATURE_BREAK_NASA7_6000_K
                        ELSE TEMPERATURE_BREAK_NASA9_6000_K, "K"),
        order |-> DictOrder(component_ids),
        components_hsg |->
            [id \in SeqRange(component_ids) |-> HSG(src, id, nasa_type, "molar")]]

Dict(items) == [kind |-> "Dict", items |-> items]
EmptyDict == Dict(<<>>)
IsDict(r) == r.kind = "Dict"
DictKeys(r) == DOMAIN r.items

\* hsgs_data[key] = res, unless res is None: that species is logged and skipped
put(hsgs_data, key, res) == IF res = NoneV THEN hsgs_data ELSE (key :> res) @@ hsgs_data

\* the loop with every species re-bucketed: a species holding no data for the
\* selected range is evaluated with the first range it holds data for
RECURSIVE calc_components_loop_rebucket(_, _, _, _, _, _, _)
calc_components_loop_rebucket(self, i, hsgs_data, temperature, prop_name, reaction_ids, selected) ==
    IF i > Len(self.order) THEN Dict(hsgs_data)
    ELSE IF prop_name \notin PropNames THEN NoneV
    ELSE LET id == self.order[i]
             obj == self.components_hsg[id]
             held == {nm \in DOMAIN obj.coefficients : obj.coefficients[nm] # NoneV}
             own == IF obj.coefficients[selected] # NoneV \/ held = {} THEN selected
                    ELSE CHOOSE nm \in held : \A other \in held : RangeIndex(nm) <= RangeIndex(other)
             key == IF reaction_ids THEN self.reaction_component_ids[id] ELSE id
         IN calc_components_loop_rebucket(self, i + 1,
                put(hsgs_data, key, calc_property(obj, prop_name, temperature, own).ret),
                temperature, prop_name, reaction_ids, selected)

\* the loop over self.components_hsg.items() from position i on, which fills
\* hsgs_data; every id is visited once, so each evaluator is the one built by
\* __init__ when its turn comes
RECURSIVE calc_components_loop(_, _, _, _, _, _, _)
calc_components_loop(self, i, hsgs_data, temperature, prop_name, reaction_ids, selected) ==
    IF i > Len(self.order) THEN Dict(hsgs_data)
    ELSE IF prop_name \notin PropNames
    THEN \* Invalid prop_name
         NoneV
    ELSE LET id == self.order[i]
             obj == self.components_hsg[id]
             res == CASE prop_name = "enthalpy" ->
                            calc_absolute_enthalpy(obj, temperature, selected).ret
                      [] prop_name = "entropy" ->
                            calc_absolute_entropy(obj, temperature, selected).ret
                      [] prop_name = "gibbs" ->
                            calc_gibbs_free_energy(obj, temperature, selected).ret
                      [] OTHER ->
                            calc_heat_capacity(obj, temperature, selected).ret
             key == IF reaction_ids THEN self.reaction_component_ids[id] ELSE id
         IN calc_components_loop(self, i + 1, put(hsgs_data, key, res),
                                 temperature, prop_name, reaction_ids, selected)

\* the batch evaluator after the loop: each evaluator has run the operation once
calc_components_after(self, temperature, prop_name, selected) ==
    IF prop_name \notin PropNames THEN self
    ELSE [self EXCEPT !.components_hsg =
             [id \in DOMAIN self.components_hsg |->
                 calc_property(self.components_hsg[id], prop_name, temperature,
                               selected).self]]

\* calc_components_hsg once the range has been selected; an exception of the
\* selection is caught and gives None
calc_components_selected(self, temperature, prop_name, reaction_ids, nasa_type_selected) ==
    IF IsRaised(nasa_type_selected) THEN [ret |-> NoneV, self |-> self]
    ELSE [ret |-> calc_components_loop(self, 1, <<>>, temperature, prop_name,
                                       reaction_ids, nasa_type_selected.value),
          self |-> calc_components_after(self, temperature, prop_name,
                                         nasa_type_selected.value)]

\* calc_components_hsg: one range for the call, then every evaluator in dict
\* order; any exception gives None
calc_components_hsg(self, temperature, prop_name, reaction_ids) ==
    calc_components_selected(self, temperature, prop_name, reaction_ids,
        _select_nasa_type(temperature, self.nasa_temperature_break_min,
                          self.nasa_temperature_break_max, self.nasa_type))

---------------------------------------------------------------------------
(* Specification SpecBatch: one Species Batch Evaluator and calc_components_hsg *)

Component(name, formula, state) == [name |-> name, formula |-> formula, state |-> state]

\* C_ has the formula and state of A_ under another name
A_ == Component("A", "X", "g")
B_ == Component("B", "Y", "g")
C_ == Component("C", "X", "g")
D_ == Component("D", "Z", "g")

SpeciesNo(component) ==
    CASE component.name = "A" -> 1
      [] component.name = "B" -> 2
      [] component.name = "C" -> 3
      [] OTHER -> 4

\* what a source holds for one species: every range, the mid range only, nothing
Holdings == {"all", "mid", "none"}

\* the complete raw mapping of a species for a range; no two species and no two
\* ranges share their values
SpeciesRaw(component, nm) == RawOver(CoeffKeys9, RangeIndex(nm) + 3 * (SpeciesNo(component) - 1))

\* the source of a set of components under a key scheme, given what it holds
\* for each of them
SourceOver(components, component_key, nasa_type, holds) ==
    [id \in {set_component_id(c, component_key) : c \in components} |->
        LET c == CHOOSE x \in components : set_component_id(x, component_key) = id
        IN [nm \in RangeNames(nasa_type) |->
               IF holds[c] = "all" \/ (holds[c] = "mid" /\ RangeIndex(nm) = 2)
               THEN SpeciesRaw(c, nm)
               ELSE NoneV]]

BatchComponents == {A_, B_, C_}

\* only the first species takes the mid-only holding
HoldingsOf(components) ==
    {h \in [components -> Holdings] : \A c \in components : h[c] = "mid" => c = A_}

BatchLists == {<<>>, <<A_>>, <<A_, B_>>, <<C_, A_>>, <<A_, B_, C_>>}

\* 1000 K is the low boundary, 728 C is 1001 K, 6001 K is above the upper
\* breakpoint, and "X" is no unit of temperature
BatchTemps ==
    {Temperature(1000, "K"), Temperature(728, "C"), Temperature(6001, "K"),
     Temperature(1000, "X")}

BatchProps == PropNames \cup {"volume"}

InitBatch ==
    /\ \E f \in NasaTypes, h \in HoldingsOf(BatchComponents), q \in BatchLists :
          /\ source = SourceOver(BatchComponents, "Name-Formula", f, h)
          /\ hsgs = HSGs(source, q, "Name-Formula", f)
          /\ call = [op |-> "HSGs", components |-> q, nasa_type |-> f]
    /\ ret = NoneV
    /\ mapping = NoObject
    /\ hsg = NoObject

CalcComponentsHSG ==
    \E t \in BatchTemps, p \in BatchProps, rid \in BOOLEAN :
        \E r \in {calc_components_hsg(hsgs, t, p, rid)} :
           /\ call' = [op |-> "calc_components_hsg", temperature |-> t,
                       prop_name |-> p, reaction_ids |-> rid]
           /\ ret' = r.ret
           /\ mapping' = r.ret
           /\ hsgs' = r.self
           /\ UNCHANGED <<source, hsg>>

NextBatch == CalcComponentsHSG

SpecBatch == InitBatch /\ [][NextBatch]_vars

BatchDone == call.op = "calc_components_hsg"

\* the range the last call selected from its temperature
BatchSelected ==
    _select_nasa_type(call.temperature, hsgs.nasa_temperature_break_min,
                      hsgs.nasa_temperature_break_max, hsgs.nasa_type)

\* what the evaluator of species id returns for the last call's property
EvaluatorResult(id) ==
    calc_property(hsgs.components_hsg[id], call.prop_name, call.temperature,
                  BatchSelected.value).ret

\* the key of species id in the mapping of the last call
BatchKey(id) == IF call.reaction_ids THEN hsgs.reaction_component_ids[id] ELSE id

\* C3: for a valid property name and temperature calc_components_hsg returns a
\* mapping, never None; a species has an entry in it (its key is present) if
\* and only if its evaluator returned a Quantity, and the mapping is empty when
\* every species is unavailable.
C3_ExactlyAvailable ==
    (BatchDone /\ call.prop_name \in PropNames /\ ~IsRaised(BatchSelected)) =>
        /\ IsDict(ret)
        /\ \A id \in DOMAIN hsgs.components_hsg :
              BatchKey(id) \in DictKeys(ret) <=> IsQuantity(EvaluatorResult(id))
        /\ (\A id \in DOMAIN hsgs.components_hsg : EvaluatorResult(id) = NoneV) =>
              ret = EmptyDict

\* two species of the batch share their role key
HasTwins ==
    \E x, y \in DOMAIN hsgs.components_hsg :
        x # y /\ hsgs.reaction_component_ids[x] = hsgs.reaction_component_ids[y]

\* what holds of the skipping: without role keys, or in a batch without twins,
\* the entries are exactly the available species
SkipUnavailable == (BatchDone /\ call.reaction_ids /\ HasTwins) \/ C3_ExactlyAvailable

\* a batch of two species at 1000 K, the first unavailable in the low range and
\* the second available: the mapping holds the second only
C3_Witness ==
    /\ BatchDone
    /\ call.prop_name = "enthalpy"
    /\ call.temperature = Temperature(1000, "K")
    /\ ~call.reaction_ids
    /\ hsgs.order = <<set_component_id(A_, "Name-Formula"), set_component_id(B_, "Name-Formula")>>
    /\ EvaluatorResult(set_component_id(A_, "Name-Formula")) = NoneV
    /\ IsQuantity(EvaluatorResult(set_component_id(B_, "Name-Formula")))
    /\ IsDict(ret)
    /\ DictKeys(ret) = {set_component_id(B_, "Name-Formula")}

---------------------------------------------------------------------------
(* The reaction aggregator of pyThermoCalcDB.reactions.source, called by   *)
(* rxn_adapter.py.  It is outside this repository; it is modelled from the *)
(* Reaction Adapter of the specification: the sum of signed coefficient    *)
(* times species value, Unavailable when a species of the stoichiometry is *)
(* absent from the mapping.                                               *)

RatAdd(x, y) == Rat(x.n * y.d + y.n * x.d, x.d * y.d)

\* a reaction: its components in order and the signed stoichiometric
\* coefficient of each role key
Reaction(name, available_components, coefficients) ==
    [name |-> name, available_components |-> available_components,
     coefficients |-> coefficients]

\* sum of coefficient times value over the role keys of q
RECURSIVE StoichiometricSum(_, _, _)
StoichiometricSum(coefficients, X_i_IG, q) ==
    IF q = <<>> THEN RatInt(0)
    ELSE RatAdd(RatMul(RatInt(coefficients[Head(q)]), X_i_IG.items[Head(q)].value),
                StoichiometricSum(coefficients, X_i_IG, Tail(q)))

\* the role keys of a reaction, in the order of its components
RoleKeys(reaction) ==
    DictOrder([i \in 1..Len(reaction.available_components) |->
                  RoleKey(reaction.available_components[i])])

\* the aggregator summing over the species that happen to be present
rxn_STD_present_only(reaction, X_i_IG, unit) ==
    Quantity(StoichiometricSum(reaction.coefficients, X_i_IG,
                               SelectSeq(RoleKeys(reaction),
                                         LAMBDA k : k \in DictKeys(X_i_IG))),
             unit)

\* the aggregator adding the values with the magnitude of the coefficients
rxn_STD_unsigned(reaction, X_i_IG, unit) ==
    IF \E k \in DOMAIN reaction.coefficients : k \notin DictKeys(X_i_IG) THEN NoneV
    ELSE Quantity(StoichiometricSum([k \in DOMAIN reaction.coefficients |->
                                        Abs(reaction.coefficients[k])],
                                    X_i_IG, RoleKeys(reaction)),
                  unit)

rxn_STD(reaction, X_i_IG, unit) ==
    IF \E k \in DOMAIN reaction.coefficients : k \notin DictKeys(X_i_IG) THEN NoneV
    ELSE Quantity(StoichiometricSum(reaction.coefficients, X_i_IG, RoleKeys(reaction)),
                  unit)

source_dH_rxn_STD(reaction, H_i_IG) == rxn_STD(reaction, H_i_IG, Unit_J_mol)
source_dS_rxn_STD(reaction, S_i_IG) == rxn_STD(reaction, S_i_IG, Unit_J_mol_K)
source_dG_rxn_STD(reaction, G_i_IG) == rxn_STD(reaction, G_i_IG, Unit_J_mol)

---------------------------------------------------------------------------
(* rxn_adapter.py: RXNAdapter, which hands the mapping to the aggregator *)

dH_rxn_std(self, H_i_IG) == source_dH_rxn_STD(self.reaction, H_i_IG)
dS_rxn_std(self, S_i_IG) == source_dS_rxn_STD(self.reaction, S_i_IG)
dG_rxn_std(self, G_i_IG) == source_dG_rxn_STD(self.reaction, G_i_IG)

RXNAdapter(reaction) == [reaction |-> reaction]

---------------------------------------------------------------------------
(* app.py: the reaction entry points dH_rxn_STD, dS_rxn_STD, dG_rxn_STD *)

\* Each entry point builds a batch evaluator over reaction.available_components,
\* asks it for the per-species mapping under role keys, returns None when that
\* is None and otherwise what the adapter returns.  The result carries the
\* mapping and the batch evaluator of the call as well.
\* dH_rxn_STD once calc_components_hsg has given r
dH_rxn_STD_with(reaction, r) ==
    IF r.ret = NoneV THEN [ret |-> NoneV, mapping |-> NoneV, hsgs |-> r.self]
    ELSE [ret |-> dH_rxn_std(RXNAdapter(reaction), r.ret), mapping |-> r.ret, hsgs |-> r.self]

dH_rxn_STD(reaction, temperature, model_source, component_key, nasa_type) ==
    dH_rxn_STD_with(reaction,
        calc_components_hsg(HSGs(model_source, reaction.available_components,
                                 component_key, nasa_type),
                            temperature, "enthalpy", TRUE))

\* dS_rxn_STD once calc_components_hsg has given r
dS_rxn_STD_with(reaction, r) ==
    IF r.ret = NoneV THEN [ret |-> NoneV, mapping |-> NoneV, hsgs |-> r.self]
    ELSE [ret |-> dS_rxn_std(RXNAdapter(reaction), r.ret), mapping |-> r.ret, hsgs |-> r.self]

dS_rxn_STD(reaction, temperature, model_source, component_key, nasa_type) ==
    dS_rxn_STD_with(reaction,
        calc_components_hsg(HSGs(model_source, reaction.available_components,
                                 component_key, nasa_type),
                            temperature, "entropy", TRUE))

\* dG_rxn_STD once calc_components_hsg has given r
dG_rxn_STD_with(reaction, r) ==
    IF r.ret = NoneV THEN [ret |-> NoneV, mapping |-> NoneV, hsgs |-> r.self]
    ELSE [ret |-> dG_rxn_std(RXNAdapter(reaction), r.ret), mapping |-> r.ret, hsgs |-> r.self]

dG_rxn_STD(reaction, temperature, model_source, component_key, nasa_type) ==
    dG_rxn_STD_with(reaction,
        calc_components_hsg(HSGs(model_source, reaction.available_components,
                                 component_key, nasa_type),
                            temperature, "gibbs", TRUE))

---------------------------------------------------------------------------
(* Specification SpecRxn: the reaction entry points over one source *)

RxnComponents == {A_, B_, D_}

\* A => B, B => A and 2 A + B => 3 D
Reactions ==
    {Reaction("R1", <<A_, B_>>, (RoleKey(A_) :> -1) @@ (RoleKey(B_) :> 1)),
     Reaction("R2", <<B_, A_>>, (RoleKey(B_) :> -1) @@ (RoleKey(A_) :> 1)),
     Reaction("R3", <<A_, B_, D_>>,
              (RoleKey(A_) :> -2) @@ (RoleKey(B_) :> -1) @@ (RoleKey(D_) :> 3))}

\* 500 K and 1000 K are in the low range, 728 C is 1001 K, "X" is no unit
RxnTemps ==
    {Temperature(500, "K"), Temperature(1000, "K"), Temperature(728, "C"),
     Temperature(500, "X")}

InitRxn ==
    /\ \E f \in NasaTypes, h \in HoldingsOf(RxnComponents) :
          /\ source = SourceOver(RxnComponents, "Name-Formula", f, h)
          /\ call = [op |-> "Source", nasa_type |-> f]
    /\ ret = NoneV
    /\ mapping = NoObject
    /\ hsg = NoObject
    /\ hsgs = NoObject

\* the family the source was filled for
SourceFamily ==
    IF \E id \in DOMAIN source : "nasa9_200_1000_K" \in DOMAIN source[id]
    THEN "nasa9" ELSE "nasa7"

EnthalpyChange ==
    \E rx \in Reactions, t \in RxnTemps :
        \E r \in {dH_rxn_STD(rx, t, source, "Name-Formula", SourceFamily)} :
           /\ call' = [op |-> "dH_rxn_STD", reaction |-> rx, temperature |-> t]
           /\ ret' = r.ret
           /\ mapping' = r.mapping
           /\ hsgs' = r.hsgs
           /\ UNCHANGED <<source, hsg>>

EntropyChange ==
    \E rx \in Reactions, t \in RxnTemps :
        \E r \in {dS_rxn_STD(rx, t, source, "Name-Formula", SourceFamily)} :
           /\ call' = [op |-> "dS_rxn_STD", reaction |-> rx, temperature |-> t]
           /\ ret' = r.ret
           /\ mapping' = r.mapping
           /\ hsgs' = r.hsgs
           /\ UNCHANGED <<source, hsg>>

GibbsChange ==
    \E rx \in Reactions, t \in RxnTemps :
        \E r \in {dG_rxn_STD(rx, t, source, "Name-Formula", SourceFamily)} :
           /\ call' = [op |-> "dG_rxn_STD", reaction |-> rx, temperature |-> t]
           /\ ret' = r.ret
           /\ mapping' = r.mapping
           /\ hsgs' = r.hsgs
           /\ UNCHANGED <<source, hsg>>

NextRxn ==
    \/ EnthalpyChange
    \/ EntropyChange
    \/ GibbsChange

SpecRxn == InitRxn /\ [][NextRxn]_vars

RxnDone == call.op \in {"dH_rxn_STD", "dS_rxn_STD", "dG_rxn_STD"}

\* the species value the mapping holds under a role key
SpeciesValue(k) == mapping.items[k].value

\* C2: a reaction-level change is None whenever a species of the reaction's
\* stoichiometry is absent from the per-species mapping of the batch evaluator
\* (or that mapping is None); no sum over the present species is returned.
C2_NoPartialSum ==
    RxnDone =>
        ((mapping = NoneV
            \/ \E k \in DOMAIN call.reaction.coefficients : k \notin DictKeys(mapping))
         => ret = NoneV)

\* 2 A + B => 3 D at 500 K with A and D in the mapping and B absent
C2_Witness ==
    /\ RxnDone
    /\ call.op = "dH_rxn_STD"
    /\ call.reaction.name = "R3"
    /\ call.temperature = Temperature(500, "K")
    /\ IsDict(mapping)
    /\ DictKeys(mapping) = {RoleKey(A_), RoleKey(D_)}
    /\ ret = NoneV

RECURSIVE SumOverKeys(_)
SumOverKeys(keys) ==
    IF keys = {} THEN 0
    ELSE LET k == CHOOSE x \in keys : TRUE
         IN call.reaction.coefficients[k] * SpeciesValue(k).n + SumOverKeys(keys \ {k})

\* C4: when every species of the reaction has a value in the per-species
\* mapping, the standard change is the sum over the species of signed
\* coefficient times species value, in the unit of the property; with one
\* reactant of coefficient -1 and one product of coefficient +1 it is
\* value(product) - value(reactant).
C4_StoichiometricSum ==
    (RxnDone /\ IsDict(mapping)
        /\ \A k \in DOMAIN call.reaction.coefficients : k \in DictKeys(mapping)) =>
        /\ IsQuantity(ret)
        /\ \A k \in DOMAIN call.reaction.coefficients : SpeciesValue(k).d = 1
        /\ ret.value = RatInt(SumOverKeys(DOMAIN call.reaction.coefficients))
        /\ ret.unit = IF call.op = "dS_rxn_STD" THEN Unit_J_mol_K ELSE Unit_J_mol
        /\ call.reaction.name = "R1" =>
              ret.value = RatInt(SpeciesValue(RoleKey(B_)).n - SpeciesValue(RoleKey(A_)).n)
        /\ call.reaction.name = "R2" =>
              ret.value = RatInt(SpeciesValue(RoleKey(A_)).n - SpeciesValue(RoleKey(B_)).n)

\* A => B at 500 K with both Gibbs energies available and different
C4_Witness ==
    /\ RxnDone
    /\ call.op = "dG_rxn_STD"
    /\ call.reaction.name = "R1"
    /\ call.temperature = Temperature(500, "K")
    /\ IsDict(mapping)
    /\ DictKeys(mapping) = {RoleKey(A_), RoleKey(B_)}
    /\ SpeciesValue(RoleKey(A_)) # SpeciesValue(RoleKey(B_))
    /\ IsQuantity(ret)
    /\ ret.value = RatInt(SpeciesValue(RoleKey(B_)).n - SpeciesValue(RoleKey(A_)).n)
    /\ ret.value # RatInt(0)

---------------------------------------------------------------------------
(* Specification SpecRequire: _require_coeffs on raw mappings *)

RawKeys == CoeffKeys9 \cup {"MW"}

\* the raw mappings: every set of keys, with values among which 0 occurs and
\* with values that are all positive
RequireCalls ==
    {[op |-> "_require_coeffs", coeffs |-> RawOver(keys, b), required |-> r] :
        keys \in SUBSET RawKeys, b \in {0, 2},
        r \in {req_coeffs_NASA7, req_coeffs_NASA9, req_props}}

InitRequire ==
    /\ call \in RequireCalls
    /\ ret = Pending
    /\ mapping = NoObject
    /\ source = NoObject
    /\ hsg = NoObject
    /\ hsgs = NoObject

RequireCoeffs ==
    /\ call.op = "_require_coeffs"
    /\ ret = Pending
    /\ ret' = _require_coeffs(call.coeffs, call.required)
    /\ UNCHANGED <<call, mapping, source, hsg, hsgs>>

NextRequire == RequireCoeffs

SpecRequire == InitRequire /\ [][NextRequire]_vars

RequireDone == call.op = "_require_coeffs" /\ ret # Pending

\* C11: _require_coeffs returns None iff a required key is absent from the raw
\* mapping; otherwise it returns a mapping whose keys are exactly the required
\* keys and whose values are the raw values of those keys.
C11_RequireCoeffs ==
    RequireDone =>
        LET required == SeqRange(call.required)
        IN /\ (ret = NoneV) <=> (\E k \in required : k \notin DOMAIN call.coeffs)
           /\ (ret # NoneV) =>
                 /\ DOMAIN ret = required
                 /\ \A k \in required : ret[k] = call.coeffs[k]

\* a1..a7 present and b1 absent: None for the NASA-9 keys
C11_Witness ==
    /\ RequireDone
    /\ call.required = req_coeffs_NASA9
    /\ DOMAIN call.coeffs = RawKeys \ {"b1"}
    /\ ret = NoneV

---------------------------------------------------------------------------
(* Invalid input at the Species Evaluator, under SpecHSG *)

\* the range name of the last call is one of no family
InvalidTag == call.nasa_type \notin (RangeNames("nasa7") \cup RangeNames("nasa9"))

\* the last call converts to mass basis with a molecular weight that is not positive
InvalidMW ==
    /\ hsg.basis = "mass"
    /\ RequestedComplete
    /\ "MW" \in DOMAIN RequestedRaw
    /\ RequestedRaw["MW"] <= 0

\* C12: a property operation given invalid input (an unrecognized range tag,
\* or a non-positive molecular weight under mass basis) fails with a result
\* other than the None it returns for missing coefficient data.
C12_InvalidInputDistinct ==
    (CalcDone /\ (InvalidTag \/ InvalidMW)) => ret # NoneV

\* a mass-basis enthalpy on a complete low range whose MW is 0 came back None
C12_Witness ==
    /\ CalcDone
    /\ call.op = "enthalpy"
    /\ RangeIndex(call.nasa_type) = 1
    /\ InvalidMW
    /\ RequestedRaw["MW"] = 0
    /\ ret = NoneV

---------------------------------------------------------------------------
(* Hard failures in calc_components_hsg, under SpecBatch *)

\* the last call was given a temperature that cannot be converted, or a
\* property name that is none of the four
BatchHardFailure == IsRaised(BatchSelected) \/ call.prop_name \notin PropNames

\* C13: a hard failure of calc_components_hsg (an unconvertible temperature
\* unit while the range is selected, an invalid property name) reaches the
\* caller as an exception; it does not end as None or as a mapping.
C13_HardFailureReRaised ==
    (BatchDone /\ BatchHardFailure) => IsRaised(ret)

\* a batch of two species asked for the enthalpy at 1000 "X": None came back
C13_Witness ==
    /\ BatchDone
    /\ call.prop_name = "enthalpy"
    /\ call.temperature = Temperature(1000, "X")
    /\ Len(hsgs.order) = 2
    /\ IsRaised(BatchSelected)
    /\ ret = NoneV

---------------------------------------------------------------------------
(* app.py: the single-species entry points H_T, S_T, G_T, Cp_T *)

\* nasa_temperature_break_min and nasa_temperature_break_max of an entry point
break_min(nasa_type) ==
    Temperature(IF nasa_type = "nasa7" THEN TEMPERATURE_BREAK_NASA7_1000_K
                ELSE TEMPERATURE_BREAK_NASA9_1000_K, "K")
break_max(nasa_type) ==
    Temperature(IF nasa_type = "nasa7" THEN TEMPERATURE_BREAK_NASA7_6000_K
                ELSE TEMPERATURE_BREAK_NASA9_6000_K, "K")

\* the result of an entry point together with the evaluator it built
evaluated(r) == [ret |-> r.ret, hsg |-> r.self]

\* H_T without its except clause: an exception of the selection leaves it
H_T_no_except(component, temperature, model_source, component_key, nasa_type, basis) ==
    [ret |-> (IF IsRaised(_select_nasa_type(temperature, break_min(nasa_type),
                                            break_max(nasa_type), nasa_type))
              THEN _select_nasa_type(temperature, break_min(nasa_type),
                                     break_max(nasa_type), nasa_type)
              ELSE calc_absolute_enthalpy(
                       HSG(model_source, set_component_id(component, component_key),
                           nasa_type, basis),
                       temperature,
                       _select_nasa_type(temperature, break_min(nasa_type),
                                         break_max(nasa_type), nasa_type).value).ret),
     hsg |-> HSG(model_source, set_component_id(component, component_key), nasa_type, basis)]

\* H_T once the evaluator is built and the range selected; the except
\* clause turns an exception of the selection into None
H_T_selected(hsg_, temperature, nasa_type_selected) ==
    IF IsRaised(nasa_type_selected) THEN [ret |-> NoneV, hsg |-> hsg_]
    ELSE evaluated(calc_absolute_enthalpy(hsg_, temperature, nasa_type_selected.value))

\* H_T selecting the range with the low boundary exclusive
H_T_strict_low(component, temperature, model_source, component_key, nasa_type, basis) ==
    H_T_selected(HSG(model_source, set_component_id(component, component_key),
                        nasa_type, basis),
                    temperature,
                    _select_nasa_type_strict_low(temperature, break_min(nasa_type),
                                                 break_max(nasa_type), nasa_type))

H_T(component, temperature, model_source, component_key, nasa_type, basis) ==
    H_T_selected(HSG(model_source, set_component_id(component, component_key),
                        nasa_type, basis),
                    temperature,
                    _select_nasa_type(temperature, break_min(nasa_type),
                                      break_max(nasa_type), nasa_type))

\* S_T once the evaluator is built and the range selected; the except
\* clause turns an exception of the selection into None
S_T_selected(hsg_, temperature, nasa_type_selected) ==
    IF IsRaised(nasa_type_selected) THEN [ret |-> NoneV, hsg |-> hsg_]
    ELSE evaluated(calc_absolute_entropy(hsg_, temperature, nasa_type_selected.value))

S_T(component, temperature, model_source, component_key, nasa_type, basis) ==
    S_T_selected(HSG(model_source, set_component_id(component, component_key),
                        nasa_type, basis),
                    temperature,
                    _select_nasa_type(temperature, break_min(nasa_type),
                                      break_max(nasa_type), nasa_type))

\* G_T once the evaluator is built and the range selected; the except
\* clause turns an exception of the selection into None
G_T_selected(hsg_, temperature, nasa_type_selected) ==
    IF IsRaised(nasa_type_selected) THEN [ret |-> NoneV, hsg |-> hsg_]
    ELSE evaluated(calc_gibbs_free_energy(hsg_, temperature, nasa_type_selected.value))

G_T(component, temperature, model_source, component_key, nasa_type, basis) ==
    G_T_selected(HSG(model_source, set_component_id(component, component_key),
                        nasa_type, basis),
                    temperature,
                    _select_nasa_type(temperature, break_min(nasa_type),
                                      break_max(nasa_type), nasa_type))

\* Cp_T once the evaluator is built and the range selected; the except
\* clause turns an exception of the selection into None
Cp_T_selected(hsg_, temperature, nasa_type_selected) ==
    IF IsRaised(nasa_type_selected) THEN [ret |-> NoneV, hsg |-> hsg_]
    ELSE evaluated(calc_heat_capacity(hsg_, temperature, nasa_type_selected.value))

Cp_T(component, temperature, model_source, component_key, nasa_type, basis) ==
    Cp_T_selected(HSG(model_source, set_component_id(component, component_key),
                        nasa_type, basis),
                    temperature,
                    _select_nasa_type(temperature, break_min(nasa_type),
                                      break_max(nasa_type), nasa_type))

---------------------------------------------------------------------------
(* The equilibrium constants of pyThermoCalcDB.reactions.source, called by *)
(* rxn_adapter.py.  They are outside this repository and are modelled from *)
(* the Reaction Adapter of the specification.  exp and ln are not computed: *)
(* the value of a constant records the formula and what went into it.      *)

Unit_dimensionless == <<"d", "i", "m", "e", "n", "s", "i", "o", "n", "l", "e", "s", "s">>

\* exp(-dG / (R T)); an unconvertible or non-positive absolute temperature fails
source_Keq_at(dG_rxn_STD_, T) ==
    IF "kind" \in DOMAIN T THEN T
    ELSE IF ~RatLt(RatInt(0), T) THEN Raised("InvalidTemperature")
    ELSE Quantity([formula |-> "exp(-dG/RT)", dG |-> dG_rxn_STD_.value, T |-> T],
                  Unit_dimensionless)

source_Keq(reaction, dG_rxn_STD_, temperature) ==
    source_Keq_at(dG_rxn_STD_, _to_Kelvin(temperature))

\* ln K(T) = ln K(T_std) - (dH / R) (1 / T - 1 / T_std)
source_Keq_vh_shortcut_at(Keq_STD, dH_rxn_STD_, T) ==
    IF "kind" \in DOMAIN T THEN T
    ELSE IF ~RatLt(RatInt(0), T) THEN Raised("InvalidTemperature")
    ELSE Quantity([formula |-> "vant Hoff", Keq_STD |-> Keq_STD.value,
                   dH |-> dH_rxn_STD_.value, T |-> T],
                  Unit_dimensionless)

source_Keq_vh_shortcut(reaction, Keq_STD, dH_rxn_STD_, temperature) ==
    source_Keq_vh_shortcut_at(Keq_STD, dH_rxn_STD_, _to_Kelvin(temperature))

---------------------------------------------------------------------------
(* rxn_adapter.py: RXNAdapter.Keq and RXNAdapter.Keq_vh_shortcut *)

RXNAdapter_Keq(self, dG_rxn_STD_, temperature) ==
    source_Keq(self.reaction, dG_rxn_STD_, temperature)

RXNAdapter_Keq_vh_shortcut(self, Keq_STD, dH_rxn_STD_, temperature) ==
    source_Keq_vh_shortcut(self.reaction, Keq_STD, dH_rxn_STD_, temperature)

---------------------------------------------------------------------------
(* app.py: Keq and Keq_vh_shortcut *)

\* the except clause of an entry point: an exception gives None
caught(r) == IF IsRaised(r) THEN NoneV ELSE r

\* the result None of an entry point, with the mapping and batch evaluator of
\* the stage r that ran last
stopped(r) == [ret |-> NoneV, mapping |-> r.mapping, hsgs |-> r.hsgs]

\* Keq once dG_rxn_STD has given dG
Keq_with(reaction, temperature, dG) ==
    IF dG.ret = NoneV THEN stopped(dG)
    ELSE [ret |-> caught(RXNAdapter_Keq(RXNAdapter(reaction), dG.ret, temperature)),
          mapping |-> dG.mapping, hsgs |-> dG.hsgs]

Keq(reaction, temperature, model_source, component_key, nasa_type) ==
    Keq_with(reaction, temperature,
             dG_rxn_STD(reaction, temperature, model_source, component_key, nasa_type))

\* Temperature(value=298.15, unit="K"), in whole degrees
standard_temperature == Temperature(298, "K")

\* Keq_vh_shortcut once the reference constant Keq_STD has been computed
Keq_vh_shortcut_with_Keq(reaction, temperature, dH, dG, Keq_STD) ==
    IF IsRaised(Keq_STD) \/ Keq_STD = NoneV THEN stopped(dG)
    ELSE [ret |-> caught(RXNAdapter_Keq_vh_shortcut(RXNAdapter(reaction), Keq_STD,
                                                    dH.ret, temperature)),
          mapping |-> dG.mapping, hsgs |-> dG.hsgs]

\* Keq_vh_shortcut once dG_rxn_STD at the standard temperature has given dG
Keq_vh_shortcut_with_dG(reaction, temperature, dH, dG) ==
    IF dG.ret = NoneV THEN stopped(dG)
    ELSE Keq_vh_shortcut_with_Keq(reaction, temperature, dH, dG,
             RXNAdapter_Keq(RXNAdapter(reaction), dG.ret, standard_temperature))

\* Keq_vh_shortcut once dH_rxn_STD at the standard temperature has given dH
Keq_vh_shortcut_with_dH(reaction, temperature, model_source, component_key, nasa_type, dH) ==
    IF dH.ret = NoneV THEN stopped(dH)
    ELSE Keq_vh_shortcut_with_dG(reaction, temperature, dH,
             dG_rxn_STD(reaction, standard_temperature, model_source, component_key,
                        nasa_type))

\* Keq_vh_shortcut with the enthalpy change taken at the caller's temperature
Keq_vh_shortcut_dH_at_target(reaction, temperature, model_source, component_key, nasa_type) ==
    Keq_vh_shortcut_with_dH(reaction, temperature, model_source, component_key, nasa_type,
        dH_rxn_STD(reaction, temperature, model_source, component_key, nasa_type))

Keq_vh_shortcut(reaction, temperature, model_source, component_key, nasa_type) ==
    Keq_vh_shortcut_with_dH(reaction, temperature, model_source, component_key, nasa_type,
        dH_rxn_STD(reaction, standard_temperature, model_source, component_key, nasa_type))

---------------------------------------------------------------------------
(* Specification SpecApp: the nine entry points of app.py over one source *)

\* the source of SourceOver with a molecular weight in every raw mapping
AppSourceOver(components, component_key, nasa_type, holds) ==
    [id \in {set_component_id(c, component_key) : c \in components} |->
        LET c == CHOOSE x \in components : set_component_id(x, component_key) = id
        IN [nm \in RangeNames(nasa_type) |->
               IF holds[c] = "all" \/ (holds[c] = "mid" /\ RangeIndex(nm) = 2)
               THEN RawOver(RawKeys, RangeIndex(nm) + 3 * (SpeciesNo(c) - 1))
               ELSE NoneV]]

AppComponents == {A_, B_}

\* A => B, and A + B => 3 D, whose mole number changes, so that its enthalpy
\* change varies with the temperature
AppReactions ==
    {rx \in Reactions : rx.name = "R1"}
        \cup {Reaction("R4", <<A_, B_, D_>>,
                        (RoleKey(A_) :> -1) @@ (RoleKey(B_) :> -1) @@ (RoleKey(D_) :> 3))}

\* D is always held; A and B as in HoldingsOf
AppHoldings == {h \in HoldingsOf(RxnComponents) : h[D_] = "all"}

\* 298 K and 500 K are in the low range, 728 C is 1001 K, -5 K is below
\* absolute zero and "X" is no unit
AppTemps ==
    {Temperature(298, "K"), Temperature(500, "K"), Temperature(728, "C"),
     Temperature(-5, "K"), Temperature(500, "X")}

InitApp ==
    /\ \E f \in NasaTypes, h \in AppHoldings :
          /\ source = AppSourceOver(RxnComponents, "Name-Formula", f, h)
          /\ call = [op |-> "Source", nasa_type |-> f]
    /\ ret = NoneV
    /\ mapping = NoObject
    /\ hsg = NoObject
    /\ hsgs = NoObject

\* the objects an entry point builds are local to the call: those of the
\* call before are gone when the next one returns
EnthalpyAt ==
    \E c \in AppComponents, t \in AppTemps, b \in BasisTypes :
        \E r \in {H_T(c, t, source, "Name-Formula", SourceFamily, b)} :
           /\ call' = [op |-> "H_T", component |-> c, temperature |-> t, basis |-> b]
           /\ ret' = r.ret
           /\ hsg' = r.hsg
           /\ mapping' = NoObject
           /\ hsgs' = NoObject
           /\ UNCHANGED source

EntropyAt ==
    \E c \in AppComponents, t \in AppTemps, b \in BasisTypes :
        \E r \in {S_T(c, t, source, "Name-Formula", SourceFamily, b)} :
           /\ call' = [op |-> "S_T", component |-> c, temperature |-> t, basis |-> b]
           /\ ret' = r.ret
           /\ hsg' = r.hsg
           /\ mapping' = NoObject
           /\ hsgs' = NoObject
           /\ UNCHANGED source

GibbsAt ==
    \E c \in AppComponents, t \in AppTemps, b \in BasisTypes :
        \E r \in {G_T(c, t, source, "Name-Formula", SourceFamily, b)} :
           /\ call' = [op |-> "G_T", component |-> c, temperature |-> t, basis |-> b]
           /\ ret' = r.ret
           /\ hsg' = r.hsg
           /\ mapping' = NoObject
           /\ hsgs' = NoObject
           /\ UNCHANGED source

HeatCapacityAt ==
    \E c \in AppComponents, t \in AppTemps, b \in BasisTypes :
        \E r \in {Cp_T(c, t, source, "Name-Formula", SourceFamily, b)} :
           /\ call' = [op |-> "Cp_T", component |-> c, temperature |-> t, basis |-> b]
           /\ ret' = r.ret
           /\ hsg' = r.hsg
           /\ mapping' = NoObject
           /\ hsgs' = NoObject
           /\ UNCHANGED source

AppGibbsChange ==
    \E rx \in AppReactions, t \in AppTemps :
        \E r \in {dG_rxn_STD(rx, t, source, "Name-Formula", SourceFamily)} :
           /\ call' = [op |-> "dG_rxn_STD", reaction |-> rx, temperature |-> t]
           /\ ret' = r.ret
           /\ mapping' = r.mapping
           /\ hsgs' = r.hsgs
           /\ hsg' = NoObject
           /\ UNCHANGED source

AppEntropyChange ==
    \E rx \in AppReactions, t \in AppTemps :
        \E r \in {dS_rxn_STD(rx, t, source, "Name-Formula", SourceFamily)} :
           /\ call' = [op |-> "dS_rxn_STD", reaction |-> rx, temperature |-> t]
           /\ ret' = r.ret
           /\ mapping' = r.mapping
           /\ hsgs' = r.hsgs
           /\ hsg' = NoObject
           /\ UNCHANGED source

AppEnthalpyChange ==
    \E rx \in AppReactions, t \in AppTemps :
        \E r \in {dH_rxn_STD(rx, t, source, "Name-Formula", SourceFamily)} :
           /\ call' = [op |-> "dH_rxn_STD", reaction |-> rx, temperature |-> t]
           /\ ret' = r.ret
           /\ mapping' = r.mapping
           /\ hsgs' = r.hsgs
           /\ hsg' = NoObject
           /\ UNCHANGED source

EquilibriumConstant ==
    \E rx \in AppReactions, t \in AppTemps :
        \E r \in {Keq(rx, t, source, "Name-Formula", SourceFamily)} :
           /\ call' = [op |-> "Keq", reaction |-> rx, temperature |-> t]
           /\ ret' = r.ret
           /\ mapping' = r.mapping
           /\ hsgs' = r.hsgs
           /\ hsg' = NoObject
           /\ UNCHANGED source

EquilibriumConstantShortcut ==
    \E rx \in AppReactions, t \in AppTemps :
        \E r \in {Keq_vh_shortcut(rx, t, source, "Name-Formula", SourceFamily)} :
           /\ call' = [op |-> "Keq_vh_shortcut", reaction |-> rx, temperature |-> t]
           /\ ret' = r.ret
           /\ mapping' = r.mapping
           /\ hsgs' = r.hsgs
           /\ hsg' = NoObject
           /\ UNCHANGED source

NextApp ==
    \/ EnthalpyAt
    \/ EntropyAt
    \/ GibbsAt
    \/ HeatCapacityAt
    \/ AppGibbsChange
    \/ AppEntropyChange
    \/ AppEnthalpyChange
    \/ EquilibriumConstant
    \/ EquilibriumConstantShortcut

SpecApp == InitApp /\ [][NextApp]_vars

SingleOps == {"H_T", "S_T", "G_T", "Cp_T"}
ReactionOps == {"dG_rxn_STD", "dS_rxn_STD", "dH_rxn_STD", "Keq", "Keq_vh_shortcut"}
AppDone == call.op \in SingleOps \cup ReactionOps

\* C14: every entry point of app.py returns a CustomProp or None; no exception
\* leaves it, and when the temperature cannot be converted or is not above
\* absolute zero where the step needs it, the result is None.
C14_NoException ==
    AppDone =>
        /\ IsQuantity(ret) \/ ret = NoneV
        /\ call.temperature.unit \notin KnownUnits => ret = NoneV
        /\ (call.op = "Keq" /\ call.temperature = Temperature(-5, "K")) => ret = NoneV

\* H_T was given a temperature in a unit that is none, and returned None
C14_Witness ==
    /\ AppDone
    /\ call.op = "H_T"
    /\ call.temperature = Temperature(500, "X")
    /\ call.component = A_
    /\ hsg.coefficients[LowOf(SourceFamily)] # NoneV
    /\ ret = NoneV

---------------------------------------------------------------------------
(* C15, under SpecHSG *)

\* the polynomial of the call was evaluated and its result was not finite
PolynomialNonFinite ==
    /\ CalcDone
    /\ RequestedComplete
    /\ \E k \in ReadBy(call.op, IsNasa9(call.nasa_type)) : RequestedRaw[k] = Infinity

\* C15: a property operation never returns a Quantity whose value is not a
\* finite number; a non-finite polynomial result gives None.
C15_FiniteOrUnavailable ==
    CalcDone =>
        /\ IsQuantity(ret) => IsFinite(ret.value)
        /\ PolynomialNonFinite => ret = NoneV

\* the enthalpy polynomial gave a non-finite value and the molar operation
\* returned a Quantity
C15_Witness ==
    /\ PolynomialNonFinite
    /\ call.op = "enthalpy"
    /\ hsg.basis = "molar"
    /\ IsQuantity(ret)

---------------------------------------------------------------------------
(* C16, under SpecApp *)

BelowAbsoluteZero(temperature) ==
    temperature.unit \in KnownUnits /\ KelvinOf(temperature) < 0

\* the range the last entry point selected from its temperature
AppSelected ==
    _select_nasa_type(call.temperature, break_min(SourceFamily),
                      break_max(SourceFamily), SourceFamily)

\* the last call read a pack from an evaluator: self.props has been set
EvaluatorUsed(self) == self.props # NoneV

\* C16: for a temperature below 0 K no range is selected and no evaluator is
\* used, by a single-species entry point or by the batch evaluator under a
\* reaction entry point: the selection fails and the result is None.
C16_InvalidTemperatureRejected ==
    (AppDone /\ BelowAbsoluteZero(call.temperature)) =>
        /\ IsRaised(AppSelected)
        /\ call.op \in SingleOps => (ret = NoneV /\ ~EvaluatorUsed(hsg))
        /\ call.op \in {"dG_rxn_STD", "dS_rxn_STD", "dH_rxn_STD"} =>
              /\ mapping = NoneV
              /\ \A id \in DOMAIN hsgs.components_hsg :
                    ~EvaluatorUsed(hsgs.components_hsg[id])

\* H_T at -5 K selected the low range, read its pack and returned a Quantity
C16_Witness ==
    /\ AppDone
    /\ call.op = "H_T"
    /\ BelowAbsoluteZero(call.temperature)
    /\ AppSelected = Val(LowOf(SourceFamily))
    /\ EvaluatorUsed(hsg)
    /\ IsQuantity(ret)

\* the batch evaluator under dH_rxn_STD at -5 K used every species' evaluator
C16_BatchReached ==
    /\ AppDone
    /\ call.op = "dH_rxn_STD"
    /\ BelowAbsoluteZero(call.temperature)
    /\ IsDict(mapping)
    /\ \A id \in DOMAIN hsgs.components_hsg : EvaluatorUsed(hsgs.components_hsg[id])

---------------------------------------------------------------------------
(* C17, under SpecApp: the batch evaluator as the reaction entry points call it *)

BatchOps == {"dG_rxn_STD", "dS_rxn_STD", "dH_rxn_STD"}

PropOf(op) ==
    CASE op = "dH_rxn_STD" -> "enthalpy"
      [] op = "dS_rxn_STD" -> "entropy"
      [] OTHER -> "gibbs"

\* species id of the last call was handled with the range sel and the call's
\* temperature: with no data for sel it has no entry and its evaluator read
\* nothing; else its entry is the polynomial on the raw mapping of sel at the
\* call's temperature, and its evaluator holds the MW of sel
HandledWith(id, sel, raw) ==
    IF raw = NoneV
    THEN /\ hsgs.reaction_component_ids[id] \notin DictKeys(mapping)
         /\ hsgs.components_hsg[id].props = NoneV
    ELSE /\ hsgs.reaction_component_ids[id] \in DictKeys(mapping)
         /\ mapping.items[hsgs.reaction_component_ids[id]]
               = Polynomial(PropOf(call.op), IsNasa9(sel), raw, call.temperature)
         /\ hsgs.components_hsg[id].props = [MW |-> raw["MW"]]

\* C17: within one call of calc_components_hsg one range is selected from the
\* call's temperature and the family's breakpoints, and every species is
\* evaluated with that range and that temperature, none with another range.
C17_OneBucketPerCall ==
    (AppDone /\ call.op \in BatchOps /\ ~IsRaised(AppSelected)) =>
        /\ IsDict(mapping)
        /\ hsgs.nasa_temperature_break_min = break_min(SourceFamily)
        /\ hsgs.nasa_temperature_break_max = break_max(SourceFamily)
        /\ \A id \in DOMAIN hsgs.components_hsg :
              HandledWith(id, AppSelected.value, source[id][AppSelected.value])

\* a batch at a low-range temperature in which A holds data for the mid range
\* only and B for every range: B is evaluated, A is not
C17_Witness ==
    /\ AppDone
    /\ call.op = "dH_rxn_STD"
    /\ AppSelected = Val(LowOf(SourceFamily))
    /\ source[<<"A", "X">>][LowOf(SourceFamily)] = NoneV
    /\ source[<<"A", "X">>][MidOf(SourceFamily)] # NoneV
    /\ RoleKey(B_) \in DictKeys(mapping)
    /\ RoleKey(A_) \notin DictKeys(mapping)

---------------------------------------------------------------------------
(* C18, under SpecBatch *)

\* the species of the batch whose evaluator returned a Quantity in the last call
Evaluated == {id \in DOMAIN hsgs.components_hsg : EvaluatorResult(id) # NoneV}

\* C18: the keys of the mapping returned by calc_components_hsg are the
\* canonical identities of the evaluated species, or their role keys when
\* reaction_ids is true, and under the key of each evaluated species stands
\* the Quantity computed for that species.
C18_KeysAndValues ==
    (BatchDone /\ call.prop_name \in PropNames /\ ~IsRaised(BatchSelected)) =>
        /\ IsDict(ret)
        /\ DictKeys(ret) = {BatchKey(id) : id \in Evaluated}
        /\ \A id \in Evaluated : ret.items[BatchKey(id)] = EvaluatorResult(id)

\* two evaluated species with one role key, under reaction_ids
C18_Witness ==
    /\ BatchDone
    /\ call.prop_name \in PropNames
    /\ ~IsRaised(BatchSelected)
    /\ call.reaction_ids
    /\ \E a, b \in Evaluated : a # b /\ BatchKey(a) = BatchKey(b)

\* without role keys, or with no two species sharing formula and state, the
\* keys and the values are as stated
C18_WithoutTwins ==
    (BatchDone /\ call.prop_name \in PropNames /\ ~IsRaised(BatchSelected)
        /\ ~(call.reaction_ids /\ HasTwins)) =>
        /\ IsDict(ret)
        /\ DictKeys(ret) = {BatchKey(id) : id \in Evaluated}
        /\ \A id \in Evaluated : ret.items[BatchKey(id)] = EvaluatorResult(id)

---------------------------------------------------------------------------
(* Specification SpecRoundTrip: the converter and its inverse in floating-   *)
(* point arithmetic.  The operators above compute in exact rationals, which *)
(* is the real-number value of a Python float expression; here every        *)
(* operation is rounded to the nearest float, ties to even.  A float has    *)
(* FloatBits significant bits (53 in Python; fewer here, so that the        *)
(* integers stay small).                                                    *)

FloatBits == 8
\* values of the round trip are -MaxRoundValue..MaxRoundValue, molecular
\* weights 1..MaxRoundMW
MaxRoundValue == 6
MaxRoundMW == 13

RECURSIVE Pow2(_)
Pow2(k) == IF k = 0 THEN 1 ELSE 2 * Pow2(k - 1)

\* the float nearest to n/d > 0: n/d is scaled by up/down, a power of two, into
\* [2^(FloatBits-1), 2^FloatBits), rounded to an integer, and scaled back
RECURSIVE FloatScaled(_, _, _, _)
FloatScaled(n, d, up, down) ==
    IF n >= d * Pow2(FloatBits) THEN FloatScaled(n, 2 * d, up, 2 * down)
    ELSE IF n < d * Pow2(FloatBits - 1) THEN FloatScaled(2 * n, d, 2 * up, down)
    ELSE LET q == n \div d
             r == n % d
             m == IF 2 * r > d \/ (2 * r = d /\ q % 2 = 1) THEN q + 1 ELSE q
         IN Rat(m * down, up)

RatNeg(a) == [n |-> -a.n, d |-> a.d]

Float(x) ==
    IF x.n = 0 THEN RatInt(0)
    ELSE IF x.n < 0 THEN RatNeg(FloatScaled(-x.n, x.d, 1, 1))
    ELSE FloatScaled(x.n, x.d, 1, 1)

FloatDiv(a, b) == Float(RatDiv(a, b))
FloatMul(a, b) == Float(RatMul(a, b))

\* _energy_or_entropy_to_mass_basis with every division rounded
_energy_or_entropy_to_mass_basis_float(value, mw_g_per_mol) ==
    LET unit_raw == Strip(value.unit)
        unit_norm == RemoveSpaces(Lower(unit_raw))
        match == _UNIT_RE_match(unit_norm)
    IN IF mw_g_per_mol <= 0 THEN Raised("ValueError")
       ELSE IF match = NoneV THEN Raised("ValueError")
       ELSE LET energy_unit_out == Strip(SplitSlashFirst(unit_raw))
                mass_value ==
                    IF match.amount = <<"m", "o", "l">>
                    THEN FloatDiv(Float(value.value),
                                  FloatDiv(RatInt(mw_g_per_mol), RatInt(1000)))
                    ELSE FloatDiv(Float(value.value), Float(RatInt(mw_g_per_mol)))
                mass_unit == energy_unit_out \o (IF match.temp THEN KgK ELSE Kg)
            IN Quantity(mass_value, mass_unit)

\* whether the amount basis of a molar unit is "kmol"
IsPerKmol(unit) ==
    \E e \in _ENERGY_UNITS : HasAt(UnitSkeleton(unit), 1, e \o <<"/", "k", "m", "o", "l">>)

\* the inverse formula, in floats: times MW / 1000 for "mol", times MW for "kmol"
InverseFloat(mass_value, mw_g_per_mol, kmol) ==
    IF kmol THEN FloatMul(mass_value, Float(RatInt(mw_g_per_mol)))
    ELSE FloatMul(mass_value, FloatDiv(RatInt(mw_g_per_mol), RatInt(1000)))

\* the inverse formula in exact arithmetic
InverseExact(mass_value, mw_g_per_mol, kmol) ==
    IF kmol THEN RatMul(mass_value, RatInt(mw_g_per_mol))
    ELSE RatMul(mass_value, Rat(mw_g_per_mol, 1000))

RoundTripUnits ==
    {J_mol, kJ_kmol, J_mol_K, kJ_kmol_K, <<"c", "a", "l", "/", "m", "o", "l">>,
     <<" ", "k", "J", " ", "/", " ", "k", "m", "o", "l", " ">>}

RoundTripCalls ==
    {[op |-> "to_mass", value |-> Quantity(RatInt(v), u), mw_g_per_mol |-> mw] :
        v \in (-MaxRoundValue)..MaxRoundValue, u \in RoundTripUnits, mw \in 1..MaxRoundMW}

InitRoundTrip ==
    /\ call \in RoundTripCalls
    /\ ret = Pending
    /\ mapping = NoObject
    /\ source = NoObject
    /\ hsg = NoObject
    /\ hsgs = NoObject

\* the conversion: ret is what the program returns, mapping the same value
\* computed without rounding
ToMassBasis ==
    /\ call.op = "to_mass"
    /\ ret = Pending
    /\ ret' = _energy_or_entropy_to_mass_basis_float(call.value, call.mw_g_per_mol)
    /\ mapping' = _energy_or_entropy_to_mass_basis(call.value, call.mw_g_per_mol)
    /\ UNCHANGED <<call, source, hsg, hsgs>>

\* the inverse formula applied to the converted quantity
BackToMolarBasis ==
    /\ call.op = "to_mass"
    /\ IsQuantity(ret)
    /\ call' = [call EXCEPT !.op = "to_molar"]
    /\ ret' = Quantity(InverseFloat(ret.value, call.mw_g_per_mol, IsPerKmol(call.value.unit)),
                       call.value.unit)
    /\ mapping' = Quantity(InverseExact(mapping.value, call.mw_g_per_mol,
                                        IsPerKmol(call.value.unit)),
                           call.value.unit)
    /\ UNCHANGED <<source, hsg, hsgs>>

NextRoundTrip == ToMassBasis \/ BackToMolarBasis

SpecRoundTrip == InitRoundTrip /\ [][NextRoundTrip]_vars

RoundTripDone == call.op = "to_molar"

\* C19 as stated: converting to mass basis and applying the inverse formula
\* gives back the original value.
C19_RoundTripExact == RoundTripDone => ret.value = call.value.value

\* C19 amended: the round trip reproduces the original value exactly in real
\* arithmetic, and in floating-point arithmetic within three units of
\* round-off relative to the value, not always exactly.
C19_RoundTrip ==
    RoundTripDone =>
        /\ mapping.value = call.value.value
        /\ LET diff == RatAdd(ret.value, RatNeg(call.value.value))
           IN Abs(diff.n) * call.value.value.d * Pow2(FloatBits)
                 <= 3 * Abs(call.value.value.n) * diff.d

\* a J/mol quantity came back from the round trip changed in its last bit
C19_Witness ==
    /\ RoundTripDone
    /\ call.value.unit = J_mol
    /\ ret.value # call.value.value
    /\ mapping.value = call.value.value

---------------------------------------------------------------------------
(* C20, under SpecHSG: the result of the last call against the result for a *)
(* source that differs in b1 and b2 of the requested range only             *)

CoeffVariants == {0, 1, 7}

\* the source with b1 and b2 of the requested range replaced
Varied(v1, v2) ==
    [source EXCEPT ![hsg.component_id][call.nasa_type] =
        [@ EXCEPT !["b1"] = v1, !["b2"] = v2]]

\* what the last call returns over another source
ResultOver(src) ==
    calc_property(HSG(src, hsg.component_id, FamilyOf(hsg), hsg.basis),
                  call.op, call.temperature, call.nasa_type).ret

\* other is the result with b1, b2 replaced by v1, v2: the heat capacity is
\* the same, and the enthalpy changes with b1, the entropy with b2 and the
\* Gibbs energy with either of them alone
AsVaried(v1, v2, raw, other) ==
    /\ call.op = "heat_capacity" => other = ret
    /\ (call.op = "enthalpy" /\ v1 # raw["b1"]) => other # ret
    /\ (call.op = "entropy" /\ v2 # raw["b2"]) => other # ret
    /\ (call.op = "gibbs" /\ ((v1 # raw["b1"]) # (v2 # raw["b2"]))) => other # ret

\* C20: for a Family-9 evaluator two coefficient sets that agree on a1..a7 and
\* differ only in b1 and b2 give the same heat capacity, while b1 and b2 do
\* reach the enthalpy, the entropy and the Gibbs energy.
C20_HeatCapacityIgnoresB ==
    (CalcDone /\ IsNasa9(call.nasa_type) /\ RequestedComplete
        /\ IsQuantity(ret) /\ IsFinite(ret.value)) =>
        \A v1, v2 \in CoeffVariants :
            AsVaried(v1, v2, RequestedRaw, ResultOver(Varied(v1, v2)))

\* a heat capacity was computed from a set whose b1 and b2 are not zero
C20_Witness ==
    /\ CalcDone
    /\ call.op = "heat_capacity"
    /\ IsNasa9(call.nasa_type)
    /\ RequestedComplete
    /\ IsQuantity(ret)
    /\ RequestedRaw["b1"] \notin CoeffVariants
    /\ RequestedRaw["b2"] \notin CoeffVariants
    /\ ResultOver(Varied(0, 0)) = ret

---------------------------------------------------------------------------
(* C21, under SpecApp *)

ShortcutDone == AppDone /\ call.op = "Keq_vh_shortcut"

\* the reaction enthalpy and Gibbs change of the last call's reaction at a
\* temperature, as the entry points return them
EnthalpyChangeAt(temperature) ==
    dH_rxn_STD(call.reaction, temperature, source, "Name-Formula", SourceFamily).ret

GibbsChangeAt(temperature) ==
    dG_rxn_STD(call.reaction, temperature, source, "Name-Formula", SourceFamily).ret

\* what went into a constant k returned by the van't Hoff step: dH and dG as
\* given, the reference constant taken at T_ref and the step aimed at T
ShortcutFrom(k, dH, dG, T_ref, T) ==
    /\ k.formula = "vant Hoff"
    /\ k.dH = dH.value
    /\ k.Keq_STD.formula = "exp(-dG/RT)"
    /\ k.Keq_STD.dG = dG.value
    /\ k.Keq_STD.T = T_ref
    /\ k.T = T

\* C21: in Keq_vh_shortcut the enthalpy change, the Gibbs change and the
\* reference constant are taken at 298.15 K whatever the target temperature,
\* and the caller's temperature is the target of the van't Hoff step only.
C21_ReferenceState ==
    (ShortcutDone /\ IsQuantity(ret)) =>
        ShortcutFrom(ret.value, EnthalpyChangeAt(standard_temperature),
                     GibbsChangeAt(standard_temperature),
                     _to_Kelvin(standard_temperature), _to_Kelvin(call.temperature))

\* a constant was returned for a target in the middle range, where the
\* enthalpy change differs from the one at the reference temperature
C21_Witness ==
    /\ ShortcutDone
    /\ IsQuantity(ret)
    /\ call.temperature = Temperature(728, "C")
    /\ IsQuantity(EnthalpyChangeAt(call.temperature))
    /\ EnthalpyChangeAt(call.temperature) # EnthalpyChangeAt(standard_temperature)
    /\ GibbsChangeAt(call.temperature) # GibbsChangeAt(standard_temperature)

---------------------------------------------------------------------------
(* hsg.py: the range-extended operations.  The *_ranges primitives of       *)
(* pyThermoCalcDB are outside this repository; they are modelled as the     *)
(* polynomial applied to every temperature of the list, on the one pack     *)
(* they are given, failing as a whole when a temperature cannot be          *)
(* converted.                                                               *)

Table(items) == [kind |-> "Table", items |-> items]
IsTable(r) == r.kind = "Table"

PolynomialRanges(prop, nasa9, pack, temperatures) ==
    IF \E i \in 1..Len(temperatures) : temperatures[i].unit \notin KnownUnits
    THEN Raised("UnitConversionError")
    ELSE Table([i \in 1..Len(temperatures) |->
                   Polynomial(prop, nasa9, pack, temperatures[i])])

\* a range operation that selects the range of every temperature anew
calc_range_with_pack_reselect(self, prop, temperatures, nasa_type, got) ==
    [ret |-> IF got.pack = NoneV THEN NoneV
             ELSE IF \E i \in 1..Len(temperatures) : temperatures[i].unit \notin KnownUnits
                  THEN NoneV
                  ELSE Table([i \in 1..Len(temperatures) |->
                          calc_property([self EXCEPT !.basis = "molar"], prop, temperatures[i],
                              _select_nasa_type(temperatures[i], break_min(FamilyOf(self)),
                                                break_max(FamilyOf(self)),
                                                FamilyOf(self)).value).ret]),
     self |-> [self EXCEPT !.props = got.props]]

\* a range operation once _set_nasa_coefficients has given got: no pack gives
\* None, an exception or None of the primitive gives None, and the result of
\* the primitive is returned as it is, with no conversion to mass basis
calc_range_with_pack(self, prop, temperatures, nasa_type, got) ==
    [ret |-> IF got.pack = NoneV THEN NoneV
             ELSE caught(PolynomialRanges(prop, IsNasa9(nasa_type), got.pack, temperatures)),
     self |-> [self EXCEPT !.props = got.props]]

\* the common body of the three range operations
calc_property_range(self, prop, temperatures, nasa_type) ==
    calc_range_with_pack(self, prop, temperatures, nasa_type,
                         _set_nasa_coefficients(self, nasa_type))

calc_absolute_enthalpy_range(self, temperatures, nasa_type) ==
    calc_property_range(self, "enthalpy", temperatures, nasa_type)

calc_absolute_entropy_range(self, temperatures, nasa_type) ==
    calc_property_range(self, "entropy", temperatures, nasa_type)

calc_gibbs_free_energy_range(self, temperatures, nasa_type) ==
    calc_property_range(self, "gibbs", temperatures, nasa_type)

---------------------------------------------------------------------------
(* Specification SpecRange: one Species Evaluator, its range operations and *)
(* its property operations                                                 *)

\* the low range absent, complete or without a7; the mid range absent or
\* complete; the high range absent
RangeSourcesOf(component_id, nasa_type) ==
    {src \in SourcesOf(component_id, nasa_type) :
        /\ src[component_id][LowOf(nasa_type)]
              \in {NoneV, RawOver(RawKeys, 1), RawOver(RawKeys \ {"a7"}, 1)}
        /\ src[component_id][MidOf(nasa_type)] \in {NoneV, RawOver(RawKeys, 2)}
        /\ src[component_id][HighOf(nasa_type)] = NoneV}

\* no temperature, one, two on either side of the first breakpoint, and a
\* list holding a temperature in a unit that is none
RangeTemps ==
    {<<>>,
     <<Temperature(227, "C")>>,
     <<Temperature(500, "K"), Temperature(1500, "K")>>,
     <<Temperature(500, "K"), Temperature(500, "X")>>}

InitRange ==
    /\ \E f \in NasaTypes, b \in BasisTypes :
          /\ source \in RangeSourcesOf("c1", f)
          /\ hsg = HSG(source, "c1", f, b)
          /\ call = [op |-> "HSG", nasa_type |-> f]
    /\ ret = NoneV
    /\ mapping = NoObject
    /\ hsgs = NoObject

CalcAbsoluteEnthalpyRange ==
    \E ts \in RangeTemps, nm \in RangeTags(FamilyOf(hsg)) :
        \E r \in {calc_absolute_enthalpy_range(hsg, ts, nm)} :
           /\ call' = [op |-> "enthalpy_range", prop |-> "enthalpy",
                       temperatures |-> ts, nasa_type |-> nm]
           /\ ret' = r.ret
           /\ hsg' = r.self
           /\ UNCHANGED <<mapping, source, hsgs>>

CalcAbsoluteEntropyRange ==
    \E ts \in RangeTemps, nm \in RangeTags(FamilyOf(hsg)) :
        \E r \in {calc_absolute_entropy_range(hsg, ts, nm)} :
           /\ call' = [op |-> "entropy_range", prop |-> "entropy",
                       temperatures |-> ts, nasa_type |-> nm]
           /\ ret' = r.ret
           /\ hsg' = r.self
           /\ UNCHANGED <<mapping, source, hsgs>>

CalcGibbsFreeEnergyRange ==
    \E ts \in RangeTemps, nm \in RangeTags(FamilyOf(hsg)) :
        \E r \in {calc_gibbs_free_energy_range(hsg, ts, nm)} :
           /\ call' = [op |-> "gibbs_range", prop |-> "gibbs",
                       temperatures |-> ts, nasa_type |-> nm]
           /\ ret' = r.ret
           /\ hsg' = r.self
           /\ UNCHANGED <<mapping, source, hsgs>>

\* the range operations and, between them, the four property operations of
\* SpecHSG
NextRange ==
    \/ CalcAbsoluteEnthalpyRange
    \/ CalcAbsoluteEntropyRange
    \/ CalcGibbsFreeEnergyRange
    \/ CalcAbsoluteEnthalpy
    \/ CalcAbsoluteEntropy
    \/ CalcGibbsFreeEnergy
    \/ CalcHeatCapacity

SpecRange == InitRange /\ [][NextRange]_vars

RangeDone == call.op \in {"enthalpy_range", "entropy_range", "gibbs_range"}

Convertible(temperatures) ==
    \A i \in 1..Len(temperatures) : temperatures[i].unit \in KnownUnits

\* C22: a range operation evaluates every temperature of the sequence with the
\* pack of the one range it was given, whatever range the temperature lies
\* in, and returns None for the whole sequence when that pack is missing or
\* incomplete.
C22_OnePackForTheSequence ==
    RangeDone =>
        /\ ~RequestedComplete => ret = NoneV
        /\ (RequestedComplete /\ Convertible(call.temperatures)) =>
              /\ IsTable(ret)
              /\ Len(ret.items) = Len(call.temperatures)
              /\ \A i \in 1..Len(call.temperatures) :
                    ret.items[i] = Polynomial(call.prop, IsNasa9(call.nasa_type),
                                              RequestedRaw, call.temperatures[i])

\* the low range was given for 500 K and 1500 K while the source holds
\* other data for the middle range
C22_Witness ==
    /\ RangeDone
    /\ call.nasa_type = LowOf(FamilyOf(hsg))
    /\ call.temperatures = <<Temperature(500, "K"), Temperature(1500, "K")>>
    /\ RequestedComplete
    /\ hsg.coefficients[MidOf(FamilyOf(hsg))] # NoneV
    /\ IsTable(ret)

---------------------------------------------------------------------------
(* C23, under SpecHSG *)

\* the requested range is one of the evaluator's family and the source holds
\* a raw mapping for it
RequestedHeld ==
    /\ call.nasa_type \in RangeNames(FamilyOf(hsg))
    /\ RequestedRaw # NoneV

\* the source with some keys removed from the raw mapping of the requested range
Dropped(keys) ==
    [source EXCEPT ![hsg.component_id][call.nasa_type] =
        [k \in (DOMAIN @) \ keys |-> @[k]]]

\* other is the result of the last call with key k removed from the raw
\* mapping: None for Family-9, unchanged for Family-7
WithoutKey(k, raw, other) ==
    k \in DOMAIN raw =>
        IF IsNasa9(call.nasa_type) THEN other = NoneV ELSE other = ret

\* C23: a result is only ever computed from a raw mapping holding every
\* required key of its family; every Family-9 operation, heat capacity
\* included, returns None when b1 or b2 is absent, and a Family-7 operation
\* returns the same with and without b1 and b2.
C23_RequiredKeys ==
    (CalcDone /\ RequestedHeld) =>
        /\ ret # NoneV => RequiredKeys(call.nasa_type) \subseteq DOMAIN RequestedRaw
        /\ (IsNasa9(call.nasa_type) /\ ~({"b1", "b2"} \subseteq DOMAIN RequestedRaw))
              => ret = NoneV
        /\ \A k \in {"b1", "b2"} : WithoutKey(k, RequestedRaw, ResultOver(Dropped({k})))
        /\ IsNasa7(call.nasa_type) => ResultOver(Dropped({"b1", "b2"})) = ret

\* a Family-9 heat capacity was asked of a range holding a1..a7 and MW only
C23_Witness ==
    /\ CalcDone
    /\ call.op = "heat_capacity"
    /\ IsNasa9(call.nasa_type)
    /\ RequestedHeld
    /\ DOMAIN RequestedRaw = RawKeys \ {"b1", "b2"}
    /\ ret = NoneV

\* a Family-7 enthalpy was computed from a range holding a1..a7 and MW only
C23_Family7Reached ==
    /\ CalcDone
    /\ call.op = "enthalpy"
    /\ IsNasa7(call.nasa_type)
    /\ RequestedHeld
    /\ DOMAIN RequestedRaw = RawKeys \ {"b1", "b2"}
    /\ IsQuantity(ret)

---------------------------------------------------------------------------
(* C24, under SpecHSG *)

\* the auxiliary properties of a raw mapping: its MW, or None without one
AuxiliaryOf(raw) == IF "MW" \in DOMAIN raw THEN [MW |-> raw["MW"]] ELSE NoneV

\* one property operation: a successful pack access sets the cache from the
\* raw mapping of the requested range, and without MW still gives a result;
\* an unsuccessful one leaves the cache as it was
CacheStep ==
    IF RequestedComplete'
    THEN /\ hsg'.props = AuxiliaryOf(RequestedRaw')
         /\ "MW" \notin DOMAIN RequestedRaw' => IsQuantity(ret')
    ELSE hsg'.props = hsg.props

\* C24: the cache props is None before any successful pack access, and after
\* every property operation it holds the auxiliary properties of the range of
\* the most recent successful pack access ({MW}, or None when that range has
\* no MW, which is no error); an unsuccessful access leaves it unchanged.
C24_PropsCache ==
    /\ (call.op = "HSG" => hsg.props = NoneV)
    /\ [][CacheStep]_vars

\* the cache still holds an MW after a call whose pack access failed
C24_Witness ==
    /\ CalcDone
    /\ ~RequestedComplete
    /\ hsg.props # NoneV
    /\ ret = NoneV

\* the cache was emptied by a successful access to a range without MW
C24_EmptiedReached ==
    /\ CalcDone
    /\ RequestedComplete
    /\ "MW" \notin DOMAIN RequestedRaw
    /\ hsg.props = NoneV
    /\ \E nm \in DOMAIN hsg.coefficients :
          hsg.coefficients[nm] # NoneV /\ "MW" \in DOMAIN hsg.coefficients[nm]

---------------------------------------------------------------------------
(* C25, under SpecRange *)

OperationDone == CalcDone \/ RangeDone

\* C25 as stated: no property or range operation changes the evaluator.
C25_Immutable == [][hsg' = hsg]_vars

\* C25 amended: no property or range operation changes the coefficient data,
\* the identity or the basis of the evaluator; the cache props is the one
\* field that changes, being overwritten by every successful pack access with
\* the auxiliary properties of the requested range.
C25_ImmutableButCache ==
    [][/\ hsg'.coefficients = hsg.coefficients
       /\ hsg'.component_id = hsg.component_id
       /\ hsg'.basis = hsg.basis
       /\ DOMAIN hsg' = DOMAIN hsg
       /\ hsg'.props # hsg.props =>
             (RequestedComplete' /\ hsg'.props = AuxiliaryOf(RequestedRaw'))]_vars

\* a range operation has written the cache, which was None at construction
C25_Witness ==
    /\ RangeDone
    /\ RequestedComplete
    /\ hsg.props = [MW |-> RequestedRaw["MW"]]

---------------------------------------------------------------------------
(* Specification SpecHistory: sequences of property operations on one       *)
(* evaluator, each call recording the cache it found                        *)

\* the low range absent or complete; the mid range complete with MW, without
\* MW or with MW = 0; the high range absent
HistorySourcesOf(component_id, nasa_type) ==
    {src \in SourcesOf(component_id, nasa_type) :
        /\ src[component_id][LowOf(nasa_type)] \in {NoneV, RawOver(RawKeys, 1)}
        /\ src[component_id][MidOf(nasa_type)] # NoneV
        /\ src[component_id][HighOf(nasa_type)] = NoneV}

InitHistory ==
    /\ \E f \in NasaTypes, b \in BasisTypes :
          /\ source \in HistorySourcesOf("c1", f)
          /\ hsg = HSG(source, "c1", f, b)
          /\ call = [op |-> "HSG", nasa_type |-> f]
    /\ ret = NoneV
    /\ mapping = NoObject
    /\ hsgs = NoObject

HistoryTemps == {Temperature(227, "C"), Temperature(1500, "K")}

\* the operation of a property name
calc_named(self, prop, temperature, nasa_type) ==
    CASE prop = "enthalpy" -> calc_absolute_enthalpy(self, temperature, nasa_type)
      [] prop = "entropy" -> calc_absolute_entropy(self, temperature, nasa_type)
      [] prop = "gibbs" -> calc_gibbs_free_energy(self, temperature, nasa_type)
      [] OTHER -> calc_heat_capacity(self, temperature, nasa_type)

PropertyCall ==
    \E prop \in PropNames, t \in HistoryTemps, nm \in RangeTags(FamilyOf(hsg)) :
        \E r \in {calc_named(hsg, prop, t, nm)} :
           /\ call' = [op |-> prop, temperature |-> t, nasa_type |-> nm,
                       cache_before |-> hsg.props]
           /\ ret' = r.ret
           /\ hsg' = r.self
           /\ UNCHANGED <<mapping, source, hsgs>>

NextHistory == PropertyCall

SpecHistory == InitHistory /\ [][NextHistory]_vars

\* the result of the last call as the range's own MW gives it
WithOwnMW(raw, molar) ==
    IF hsg.basis = "mass" /\ "MW" \in DOMAIN raw
    THEN mass_or_none(_energy_or_entropy_to_mass_basis(molar, raw["MW"]))
    ELSE molar

\* C26: after any sequence of earlier calls a property operation returns what
\* a newly constructed evaluator over the same data returns, and a mass-basis
\* conversion uses the MW of the requested range, never one cached by an
\* earlier call.
C26_HistoryIndependence ==
    CalcDone =>
        /\ ret = ResultOver(source)
        /\ RequestedComplete => ret = WithOwnMW(RequestedRaw, RequestedPolynomial)

\* a mass-basis call on a range whose auxiliary properties differ from the
\* cache an earlier call had left
C26_Witness ==
    /\ CalcDone
    /\ hsg.basis = "mass"
    /\ RequestedComplete
    /\ call.cache_before # NoneV
    /\ call.cache_before # AuxiliaryOf(RequestedRaw)
    /\ IsQuantity(ret)

\* the cache held an MW and the requested range has none: no conversion
C26_NoStaleMW ==
    /\ C26_Witness
    /\ "MW" \notin DOMAIN RequestedRaw
    /\ ret = RequestedPolynomial

---------------------------------------------------------------------------
(* C27, under SpecBatch *)

\* C27: with reaction_ids the species of the batch have distinct keys, and
\* the mapping has exactly one entry for each species whose result is
\* available, none overwritten by a species of the same formula and state.
C27_DistinctRoleKeys ==
    (BatchDone /\ call.reaction_ids /\ call.prop_name \in PropNames
        /\ ~IsRaised(BatchSelected)) =>
        /\ \A a, b \in DOMAIN hsgs.components_hsg :
              a # b => hsgs.reaction_component_ids[a] # hsgs.reaction_component_ids[b]
        /\ IsDict(ret)
        /\ Cardinality(DictKeys(ret)) = Cardinality(Evaluated)

\* two species were available and the mapping has one entry
C27_Witness ==
    /\ BatchDone
    /\ call.reaction_ids
    /\ call.prop_name \in PropNames
    /\ ~IsRaised(BatchSelected)
    /\ Cardinality(Evaluated) = 2
    /\ IsDict(ret)
    /\ Cardinality(DictKeys(ret)) = 1

---------------------------------------------------------------------------
(* C28, under SpecBatch *)

\* the single-species entry point of a property name
EntryPoint(prop, component, temperature, model_source, component_key, nasa_type, basis) ==
    CASE prop = "enthalpy" ->
             H_T(component, temperature, model_source, component_key, nasa_type, basis)
      [] prop = "entropy" ->
             S_T(component, temperature, model_source, component_key, nasa_type, basis)
      [] prop = "gibbs" ->
             G_T(component, temperature, model_source, component_key, nasa_type, basis)
      [] OTHER ->
             Cp_T(component, temperature, model_source, component_key, nasa_type, basis)

\* the batch of the last call holds one species and canonical keys were asked
SingleSpeciesBatch ==
    /\ BatchDone
    /\ Len(hsgs.order) = 1
    /\ ~call.reaction_ids
    /\ call.prop_name \in PropNames

\* the component of a canonical identity
ComponentOf(id) == CHOOSE c \in BatchComponents : set_component_id(c, "Name-Formula") = id

\* single is what the entry point returns for the species id of the batch:
\* the same Quantity as the entry of id, and None exactly when id has no entry
SameAsSingle(id, single) ==
    IF IsRaised(BatchSelected) THEN ret = NoneV /\ single = NoneV
    ELSE /\ IsDict(ret)
         /\ DictKeys(ret) \subseteq {id}
         /\ (single = NoneV) <=> (id \notin DictKeys(ret))
         /\ single # NoneV => ret.items[id] = single

\* C28: for a batch of one species calc_components_hsg with canonical keys
\* returns under the species' identity the Quantity the matching entry point
\* returns on molar basis, and has no entry exactly when the entry point
\* returns None.
C28_BatchOfOne ==
    SingleSpeciesBatch =>
        SameAsSingle(hsgs.order[1],
                     EntryPoint(call.prop_name, ComponentOf(hsgs.order[1]), call.temperature,
                                source, "Name-Formula", hsgs.nasa_type, "molar").ret)

\* a batch of one species at the low breakpoint itself, with data for the
\* low and the middle range
C28_Witness ==
    /\ SingleSpeciesBatch
    /\ call.temperature = Temperature(1000, "K")
    /\ call.prop_name = "enthalpy"
    /\ hsgs.components_hsg[hsgs.order[1]].coefficients[MidOf(hsgs.nasa_type)] # NoneV
    /\ IsDict(ret)
    /\ DictKeys(ret) = {hsgs.order[1]}

\* a batch of one species without data for the selected range: no entry
C28_NoEntryReached ==
    /\ SingleSpeciesBatch
    /\ IsDict(ret)
    /\ DictKeys(ret) = {}

---------------------------------------------------------------------------
(* Specification SpecStages: Keq and Keq_vh_shortcut of app.py statement by *)
(* statement.  call holds the position in the function body (stage), the    *)
(* local variables dH_rxn_STD_, dG_rxn_STD_ and Keq_STD_, and the stages    *)
(* that have run so far, in order (ran).                                     *)

StageNames == <<"dH_rxn_STD", "dG_rxn_STD", "Keq", "Keq_vh_shortcut">>

\* the check "if x is None: return None" after a stage, with the stage that
\* follows otherwise, without the check
next_stage_unchecked(result, following) == following

\* the check "if x is None: return None" after a stage, with the stage that
\* follows otherwise
next_stage(result, following) ==
    IF result = NoneV THEN "returned" ELSE following

\* the position after a stage: an exception leaves through the except clause
stage_after(result, following) ==
    IF IsRaised(result) THEN "returned" ELSE next_stage(result, following)

\* the position and the locals of an entry point op as it is entered
Entered(op, rx, t, first) ==
    [op |-> op, reaction |-> rx, temperature |-> t, stage |-> first,
     dH_rxn_STD_ |-> Pending, dG_rxn_STD_ |-> Pending, Keq_STD_ |-> Pending,
     ran |-> <<>>]

InitStages ==
    /\ \E f \in NasaTypes, h \in AppHoldings :
          /\ source = AppSourceOver(RxnComponents, "Name-Formula", f, h)
          /\ call = [op |-> "Source", nasa_type |-> f, stage |-> "returned"]
    /\ ret = NoneV
    /\ mapping = NoObject
    /\ hsg = NoObject
    /\ hsgs = NoObject

\* Keq_vh_shortcut is called
EnterKeqVhShortcut ==
    /\ call.stage = "returned"
    /\ \E rx \in AppReactions, t \in AppTemps :
          call' = Entered("Keq_vh_shortcut", rx, t, "dH_rxn_STD")
    /\ ret' = Pending
    /\ UNCHANGED <<mapping, source, hsg, hsgs>>

\* Keq is called
EnterKeq ==
    /\ call.stage = "returned"
    /\ \E rx \in AppReactions, t \in AppTemps :
          call' = Entered("Keq", rx, t, "dG_rxn_STD")
    /\ ret' = Pending
    /\ UNCHANGED <<mapping, source, hsg, hsgs>>

\* the stage has given result: the local is set, and the function goes on to
\* the following stage or returns None
StageDone(local, result, following) ==
    /\ call' = [call EXCEPT ![local] = result,
                            !.ran = Append(@, call.stage),
                            !.stage = stage_after(result, following)]
    /\ ret' = IF stage_after(result, following) = "returned" THEN NoneV ELSE Pending
    /\ UNCHANGED <<mapping, source, hsg, hsgs>>

\* the last stage has given result: it is returned, None after an exception
LastStageDone(result) ==
    /\ call' = [call EXCEPT !.ran = Append(@, call.stage), !.stage = "returned"]
    /\ ret' = caught(result)
    /\ UNCHANGED <<mapping, source, hsg, hsgs>>

\* Keq_vh_shortcut: dH_rxn_STD at the standard temperature
ShortcutEnthalpyStage ==
    /\ call.op = "Keq_vh_shortcut"
    /\ call.stage = "dH_rxn_STD"
    /\ \E r \in {dH_rxn_STD(call.reaction, standard_temperature, source, "Name-Formula",
                            SourceFamily).ret} :
          StageDone("dH_rxn_STD_", r, "dG_rxn_STD")

\* Keq_vh_shortcut: dG_rxn_STD at the standard temperature
ShortcutGibbsStage ==
    /\ call.op = "Keq_vh_shortcut"
    /\ call.stage = "dG_rxn_STD"
    /\ \E r \in {dG_rxn_STD(call.reaction, standard_temperature, source, "Name-Formula",
                            SourceFamily).ret} :
          StageDone("dG_rxn_STD_", r, "Keq")

\* Keq_vh_shortcut: rxn_adapter.Keq at the standard temperature
ShortcutReferenceStage ==
    /\ call.op = "Keq_vh_shortcut"
    /\ call.stage = "Keq"
    /\ \E r \in {RXNAdapter_Keq(RXNAdapter(call.reaction), call.dG_rxn_STD_,
                                standard_temperature)} :
          StageDone("Keq_STD_", r, "Keq_vh_shortcut")

\* Keq_vh_shortcut: rxn_adapter.Keq_vh_shortcut at the caller's temperature
ShortcutVantHoffStage ==
    /\ call.op = "Keq_vh_shortcut"
    /\ call.stage = "Keq_vh_shortcut"
    /\ \E r \in {RXNAdapter_Keq_vh_shortcut(RXNAdapter(call.reaction), call.Keq_STD_,
                                            call.dH_rxn_STD_, call.temperature)} :
          LastStageDone(r)

\* Keq: dG_rxn_STD at the caller's temperature
KeqGibbsStage ==
    /\ call.op = "Keq"
    /\ call.stage = "dG_rxn_STD"
    /\ \E r \in {dG_rxn_STD(call.reaction, call.temperature, source, "Name-Formula",
                            SourceFamily).ret} :
          StageDone("dG_rxn_STD_", r, "Keq")

\* Keq: rxn_adapter.Keq at the caller's temperature
KeqStage ==
    /\ call.op = "Keq"
    /\ call.stage = "Keq"
    /\ \E r \in {RXNAdapter_Keq(RXNAdapter(call.reaction), call.dG_rxn_STD_,
                                call.temperature)} :
          LastStageDone(r)

NextStages ==
    \/ EnterKeqVhShortcut
    \/ EnterKeq
    \/ ShortcutEnthalpyStage
    \/ ShortcutGibbsStage
    \/ ShortcutReferenceStage
    \/ ShortcutVantHoffStage
    \/ KeqGibbsStage
    \/ KeqStage

SpecStages == InitStages /\ [][NextStages]_vars

---------------------------------------------------------------------------
(* C29, under SpecStages *)

InStages == call.op \in {"Keq", "Keq_vh_shortcut"}

\* s is the first n elements of t
IsPrefix(s, t) == Len(s) <= Len(t) /\ \A i \in 1..Len(s) : s[i] = t[i]

\* the stages of the entry point of the call, in the order of its body
StagesOf(op) ==
    IF op = "Keq_vh_shortcut" THEN StageNames ELSE <<"dG_rxn_STD", "Keq">>

\* the local a stage assigns
LocalOf(stage) ==
    CASE stage = "dH_rxn_STD" -> call.dH_rxn_STD_
      [] stage = "dG_rxn_STD" -> call.dG_rxn_STD_
      [] OTHER -> call.Keq_STD_

\* a stage other than the last one that has run and was followed by another
\* one gave a Quantity
EarlierStagesGave ==
    \A i \in 1..Len(call.ran) :
        (i < Len(call.ran) \/ (call.stage # "returned" /\ i < Len(StagesOf(call.op))))
            => IsQuantity(LocalOf(call.ran[i]))

\* the function returned before its last stage: the stage that ran last gave
\* None or raised, and None is returned
StoppedEarly ==
    /\ call.stage = "returned"
    /\ call.ran # <<>>
    /\ Len(call.ran) < Len(StagesOf(call.op))

\* the result agrees with the entry point taken as a whole
StagesAgree ==
    (InStages /\ call.stage = "returned") =>
        ret = IF call.op = "Keq"
              THEN Keq(call.reaction, call.temperature, source, "Name-Formula",
                       SourceFamily).ret
              ELSE Keq_vh_shortcut(call.reaction, call.temperature, source,
                                   "Name-Formula", SourceFamily).ret

\* C29: Keq_vh_shortcut runs enthalpy change, Gibbs change (both at the
\* standard temperature), reference constant and van't Hoff step in this
\* order; once a stage yields None the function returns None and no later
\* stage runs; the van't Hoff step is only invoked with a reference constant
\* and an enthalpy change that are not None.  Keq runs the Gibbs change at the
\* caller's temperature and then the constant, only with a Gibbs change that
\* is not None.
C29_StageOrder ==
    InStages =>
        /\ IsPrefix(call.ran, StagesOf(call.op))
        /\ call.stage # "returned" => call.stage = StagesOf(call.op)[Len(call.ran) + 1]
        /\ EarlierStagesGave
        /\ StoppedEarly =>
              /\ ret = NoneV
              /\ ~IsQuantity(LocalOf(call.ran[Len(call.ran)]))
        /\ (call.op = "Keq_vh_shortcut" /\ call.stage = "Keq_vh_shortcut") =>
              /\ IsQuantity(call.Keq_STD_)
              /\ IsQuantity(call.dH_rxn_STD_)
              /\ call.dH_rxn_STD_ = EnthalpyChangeAt(standard_temperature)
              /\ call.dG_rxn_STD_ = GibbsChangeAt(standard_temperature)
        /\ (call.op = "Keq" /\ call.stage = "Keq") =>
              /\ IsQuantity(call.dG_rxn_STD_)
              /\ call.dG_rxn_STD_ = GibbsChangeAt(call.temperature)

\* Keq_vh_shortcut stopped after its first stage, the enthalpy change being
\* None: the Gibbs change was never computed
C29_Witness ==
    /\ call.op = "Keq_vh_shortcut"
    /\ call.stage = "returned"
    /\ call.ran = <<"dH_rxn_STD">>
    /\ call.dH_rxn_STD_ = NoneV
    /\ call.dG_rxn_STD_ = Pending
    /\ ret = NoneV

\* Keq_vh_shortcut ran all four stages and returned a constant
C29_AllStagesReached ==
    /\ call.op = "Keq_vh_shortcut"
    /\ call.stage = "returned"
    /\ call.ran = StageNames
    /\ IsQuantity(ret)

\* Keq stopped after the Gibbs change, which was None
C29_KeqStoppedReached ==
    /\ call.op = "Keq"
    /\ call.stage = "returned"
    /\ call.ran = <<"dG_rxn_STD">>
    /\ call.dG_rxn_STD_ = NoneV

---------------------------------------------------------------------------
(* C30, under SpecBatch *)

\* the last call asked for a property name that is none of the four
InvalidPropName == BatchDone /\ call.prop_name \notin PropNames

\* C30: for every component list, the empty one included, calc_components_hsg
\* with a property name outside enthalpy, entropy, gibbs and heat_capacity
\* returns None and never a mapping.
C30_InvalidPropNameGivesNone ==
    InvalidPropName => ret = NoneV

\* a batch without species was asked for an invalid property name at a
\* convertible temperature: the loop body never ran and the empty mapping
\* came back
C30_Witness ==
    /\ InvalidPropName
    /\ hsgs.order = <<>>
    /\ ~IsRaised(BatchSelected)
    /\ IsDict(ret)
    /\ DictKeys(ret) = {}

\* with at least one species in the batch the invalid name gives None
C30_NonEmptyGivesNone ==
    (InvalidPropName /\ hsgs.order # <<>>) => ret = NoneV

\* a batch of two species was asked for an invalid property name
C30_NonEmptyReached ==
    /\ InvalidPropName
    /\ Len(hsgs.order) = 2
    /\ ~IsRaised(BatchSelected)
    /\ ret = NoneV

=============================================================================
